---- MODULE Spec2Model ----
(***************************************************************************)
(* Model of the NEPSE signalling scripts main_new.py, main.py and new.py:  *)
(* the indicator library, the sentiment aggregator, the technical signal   *)
(* resolver, the decision engine of analyze_stock and the fan-out,         *)
(* collection and ranking done by send_signals.                            *)
(*                                                                         *)
(* Numbers.  The scripts compute in floating point.  The model keeps every *)
(* comparison exact by working on integers: a sentiment score is a         *)
(* fraction [num, den] with den > 0, a pressure is an integer number of    *)
(* pressure units, and a comparison of two quotients is done by cross      *)
(* multiplication.                                                         *)
(***************************************************************************)
EXTENDS Integers, Sequences, FiniteSets, TLC

VARIABLES
    engine,            \* decision engine under evaluation: "strict" or "threshold"
    technical_signal,  \* analyze_stock local: the technical verdict
    net_pressure,      \* analyze_stock local: buy_pressure - sell_pressure
    sentiment,         \* analyze_stock local: the sentiment aggregate (fraction)
    decision,          \* analyze_stock locals buy_points, sell_points, signal
    earlier,           \* the decision taken for a lower net pressure, or NoDecision
    votes,             \* the votes of the four indicators: MA, Bollinger, MACD, RSI
    variant,           \* the script that runs: "main_new" or "new"
    stocks,            \* send_signals local: the roster get_listed_stocks returned
    news_dict,         \* send_signals local: the news index get_news returned
    retrievable,       \* the histories the retrieval service can answer with
    worker,            \* per roster index: the future running analyze_stock
    results,           \* send_signals local: the list results
    pc,                \* where send_signals is
    output,            \* the file send_signals wrote, or NoFile
    attempt,           \* analyze_stock local of the call whose fetch loop is followed
    requests,          \* the requests that fetch loop has issued
    response,          \* what the last request of that loop met with
    rerun_signal       \* the technical verdict of another run on the same votes

dvars == <<engine, technical_signal, net_pressure, sentiment, decision, earlier, votes>>

pvars == <<variant, stocks, news_dict, retrievable, worker, results, pc, output>>

fvars == <<attempt, requests, response>>

rvars == <<rerun_signal>>

vars == <<dvars, pvars, fvars, rvars>>

(***************************************************************************)
(* Values                                                                  *)
(***************************************************************************)
Verdicts == {"Buy", "Sell", "Neutral"}

NoDecision == [buy_points |-> 0, sell_points |-> 0, signal |-> "none"]

Abs(x) == IF x < 0 THEN -x ELSE x

\* A fraction num/den, den > 0.
Frac(n, d) == [num |-> n, den |-> d]

\* num/den > h/100 and num/den < h/100, by cross multiplication.
FracGT(f, h) == f.num * 100 > h * f.den
FracLT(f, h) == f.num * 100 < h * f.den

\* The sentiment thresholds of the decision matrix, in hundredths.
SentimentBuyThreshold == 5
SentimentSellThreshold == -5

\* buy_points >= 3 / sell_points >= 3 of the final decision.
QuorumPoints == 3

\* Points awarded for the technical verdict.
TechnicalPoints == 2

(***************************************************************************)
(* Price history.  A bar is one record of the retrieved "content" list:    *)
(* date is businessDate, close is closePrice, numeric tells whether        *)
(* closePrice is a number (a JSON null otherwise), qty is                  *)
(* totalTradedQuantity.  A history is the content list together with       *)
(* whether its records carry the closePrice field at all, and whether they *)
(* carry the totalTradedQuantity field.                                    *)
(***************************************************************************)
Bar(d, c, q) == [date |-> d, close |-> c, numeric |-> TRUE, qty |-> q]
NullBar(d, q) == [date |-> d, close |-> 0, numeric |-> FALSE, qty |-> q]

History(rows) == [closePrice |-> TRUE, totalTradedQuantity |-> TRUE, content |-> rows]

Min(a, b) == IF a < b THEN a ELSE b
Max(a, b) == IF a > b THEN a ELSE b

\* The last w rows of df (all of them when there are fewer).
LastRows(df, w) == SubSeq(df, Max(1, Len(df) - w + 1), Len(df))

\* The term a bar adds to a sum over closes: the close, its square, or 1.
Term(b, what) ==
    IF what = "close" THEN b.close
    ELSE IF what = "square" THEN b.close * b.close
    ELSE 1

RECURSIVE SumOver(_, _, _)
\* Sum of Term(df[i], what) over the rows i = k .. Len(df) whose close is
\* numeric (pandas skips NaN in sums, means and counts).
SumOver(df, k, what) ==
    IF k > Len(df) THEN 0
    ELSE (IF df[k].numeric THEN Term(df[k], what) ELSE 0) + SumOver(df, k + 1, what)

\* Number of bars whose close is numeric.
NumericBars(df) == SumOver(df, 1, "one")

\* df.sort_values(["code", "date"]): a stable sort on date.
InsertByDate(df, b) ==
    LET k == Cardinality({ i \in 1 .. Len(df) : df[i].date <= b.date })
    IN  SubSeq(df, 1, k) \o <<b>> \o SubSeq(df, k + 1, Len(df))

RECURSIVE sort_values(_)
sort_values(df) ==
    IF df = <<>> THEN <<>>
    ELSE InsertByDate(sort_values(SubSeq(df, 1, Len(df) - 1)), df[Len(df)])

RECURSIVE KeepLast(_, _)
\* Rows k .. Len(df) of df without those a later row repeats the date of.
KeepLast(df, k) ==
    IF k > Len(df) THEN <<>>
    ELSE IF \E j \in k + 1 .. Len(df) : df[j].date = df[k].date
         THEN KeepLast(df, k + 1)
         ELSE <<df[k]>> \o KeepLast(df, k + 1)

\* drop_duplicates(subset=["code", "date"], keep="last")
drop_duplicates(df) == KeepLast(df, 1)

\* The frame analyze_technical_indicators computes on.
Normalized(content) == drop_duplicates(sort_values(content))

(***************************************************************************)
(* Indicator library of main_new.py, evaluated at the latest row.          *)
(* A value that pandas leaves NaN is a fraction with den = 0.              *)
(***************************************************************************)
NaN == Frac(0, 0)
IsNaN(f) == f.den = 0

\* a > b and a < b on fractions; FALSE when either side is NaN.
GT(a, b) == ~IsNaN(a) /\ ~IsNaN(b) /\ a.num * b.den > b.num * a.den
LT(a, b) == GT(b, a)

\* Windows of the indicators.
ShortWindow == 5
LongWindow == 20
BollingerWindow == 20
NumStd == 2
MacdShortSpan == 12
MacdLongSpan == 26
MacdSignalSpan == 9
RsiWindow == 14
RsiBuyBelow == 30
RsiSellAbove == 70
MinRows == 20

\* rolling(window, min_periods=1).mean() at the latest row.
RollingMean(df, w) ==
    LET win == LastRows(df, w)
    IN  IF NumericBars(win) = 0 THEN NaN
        ELSE Frac(SumOver(win, 1, "close"), NumericBars(win))

calculate_moving_averages(df) ==
    [short_ma |-> RollingMean(df, ShortWindow),
     long_ma  |-> RollingMean(df, LongWindow)]

MAVoteElif(df) ==
    LET ma == calculate_moving_averages(df)
    IN  IF GT(ma.short_ma, ma.long_ma) THEN "Buy"
        ELSE IF LT(ma.short_ma, ma.long_ma) THEN "Sell"
        ELSE "abstain"

\* Moving Averages vote: Buy if short_ma > long_ma, else Sell.
MAVote(df) ==
    LET ma == calculate_moving_averages(df)
    IN  IF GT(ma.short_ma, ma.long_ma) THEN "Buy" ELSE "Sell"

\* rolling(window=20) mean and std (sample, ddof = 1) need 20 numeric closes:
\* sum and sum of squares of the window, or defined = FALSE.
calculate_bollinger_bands(df) ==
    LET win == LastRows(df, BollingerWindow)
    IN  [defined |-> Len(win) = BollingerWindow /\ NumericBars(win) = BollingerWindow,
         sum     |-> SumOver(win, 1, "close"),
         squares |-> SumOver(win, 1, "square")]

\* With n = 20, mean = sum/n and std^2 = (n*squares - sum^2) / (n*(n-1)):
\*   close < mean - 2 std  iff  sum - n*close > 0  and
\*       (n-1) * (sum - n*close)^2 > NumStd^2 * n * (n*squares - sum^2)
\*   close > mean + 2 std  iff  n*close - sum > 0  and the same inequality.
BollingerVote(df) ==
    LET bb    == calculate_bollinger_bands(df)
        last  == df[Len(df)]
        n     == BollingerWindow
        dist  == bb.sum - n * last.close
        wide  == (n - 1) * dist * dist > NumStd * NumStd * n * (n * bb.squares - bb.sum * bb.sum)
    IN  IF ~bb.defined \/ ~last.numeric THEN "abstain"
        ELSE IF dist > 0 /\ wide THEN "Buy"
        ELSE IF dist < 0 /\ wide THEN "Sell"
        ELSE "abstain"

(***************************************************************************)
(* MACD.  ewm(span, adjust=False).mean() is the recursion                  *)
(*     ema[t] = (old_wt * ema[t-1] + alpha * x[t]) / (old_wt + alpha)      *)
(* with alpha = 2/(span+1) and old_wt = (1-alpha)^k, k-1 the number of NaN *)
(* rows since the last observation; it is NaN up to the first observation  *)
(* and is carried forward over a NaN row.  The model evaluates it in fixed *)
(* point, EmaScale units to one price unit, rounding down.                 *)
(***************************************************************************)
EmaScale == 10 ^ 5

\* A value of a column: numeric or NaN.
Num(v) == [numeric |-> TRUE, v |-> v]
NotNum == [numeric |-> FALSE, v |-> 0]

\* The close column in EmaScale units.
CloseColumn(df) ==
    [i \in 1 .. Len(df) |-> IF df[i].numeric THEN Num(df[i].close * EmaScale) ELSE NotNum]

RECURSIVE Ewm(_, _, _)
\* State of the recursion after k rows of column x: w the weighted average
\* (defined once an observation was seen), on/od the old weight, out the
\* output column so far.
Ewm(x, span, k) ==
    IF k = 0 THEN [defined |-> FALSE, w |-> 0, on |-> 1, od |-> 1, out |-> <<>>]
    ELSE
      LET p   == Ewm(x, span, k - 1)
          cur == x[k]
          on  == p.on * (span - 1)
          od  == p.od * (span + 1)
          new == (on * p.w + 2 * (od \div (span + 1)) * cur.v)
                     \div (on + 2 * (od \div (span + 1)))
          nxt == IF ~p.defined
                 THEN IF cur.numeric
                      THEN [defined |-> TRUE, w |-> cur.v, on |-> 1, od |-> 1]
                      ELSE [defined |-> FALSE, w |-> 0, on |-> 1, od |-> 1]
                 ELSE IF cur.numeric
                      THEN [defined |-> TRUE, w |-> new, on |-> 1, od |-> 1]
                      ELSE [defined |-> TRUE, w |-> p.w, on |-> on, od |-> od]
      IN  [defined |-> nxt.defined, w |-> nxt.w, on |-> nxt.on, od |-> nxt.od,
           out |-> Append(p.out, IF nxt.defined THEN Num(nxt.w) ELSE NotNum)]

ewm_mean(x, span) == Ewm(x, span, Len(x)).out

\* macd = ema_short - ema_long; signal = ewm(span=9) of macd; both at the
\* latest row, in EmaScale units.
calculate_macd(df) ==
    LET es   == ewm_mean(CloseColumn(df), MacdShortSpan)
        el   == ewm_mean(CloseColumn(df), MacdLongSpan)
        macd == [i \in 1 .. Len(df) |->
                    IF es[i].numeric /\ el[i].numeric
                    THEN Num(es[i].v - el[i].v) ELSE NotNum]
        sig  == ewm_mean(macd, MacdSignalSpan)
    IN  [macd |-> macd[Len(df)], signal |-> sig[Len(df)]]

\* MACD vote: Buy if macd > signal, else Sell.
MACDVote(df) ==
    LET m == calculate_macd(df)
    IN  IF m.macd.numeric /\ m.signal.numeric /\ m.macd.v > m.signal.v
        THEN "Buy" ELSE "Sell"

(***************************************************************************)
(* RSI.  delta = close.diff(); gain and loss replace a NaN delta by 0, so  *)
(* rolling(14).mean() is defined from the 14th row on.  With G and L the   *)
(* sums of gains and losses over the window, rsi = 100 - 100/(1 + G/L)     *)
(* = 100 G / (G + L): 100 when L = 0 < G, NaN when G = L = 0.              *)
(***************************************************************************)
Delta(df, i) ==
    IF i > 1 /\ df[i].numeric /\ df[i - 1].numeric
    THEN df[i].close - df[i - 1].close ELSE 0

RECURSIVE SumGain(_, _, _)
\* Sum over rows k .. Len(df) of the gains (up = TRUE) or the losses.
SumGain(df, k, up) ==
    IF k > Len(df) THEN 0
    ELSE (IF up THEN Max(Delta(df, k), 0) ELSE Max(-Delta(df, k), 0))
         + SumGain(df, k + 1, up)

\* RS kept undefined when the loss is zero.
calculate_rsi_undefined(df) ==
    LET from == Len(df) - RsiWindow + 1
        G    == SumGain(df, Max(from, 1), TRUE)
        L    == SumGain(df, Max(from, 1), FALSE)
    IN  IF from < 1 \/ L = 0 THEN NaN ELSE Frac(100 * G, G + L)

calculate_rsi(df) ==
    LET from == Len(df) - RsiWindow + 1
        G    == SumGain(df, Max(from, 1), TRUE)
        L    == SumGain(df, Max(from, 1), FALSE)
    IN  IF from < 1 THEN NaN ELSE Frac(100 * G, G + L)

\* RSI vote: Buy if rsi < 30, Sell if rsi > 70.
RSIVote(df) ==
    LET rsi == calculate_rsi(df)
    IN  IF LT(rsi, Frac(RsiBuyBelow, 1)) THEN "Buy"
        ELSE IF GT(rsi, Frac(RsiSellAbove, 1)) THEN "Sell"
        ELSE "abstain"

(***************************************************************************)
(* Technical signal resolver of main_new.py.                               *)
(***************************************************************************)
\* The list "signals": the votes cast, in the order MA, Bollinger, MACD, RSI.
SignalsOf(cast) == SelectSeq(cast, LAMBDA v : v # "abstain")

Count(signals, what) == Cardinality({ i \in 1 .. Len(signals) : signals[i] = what })

\* "Determine final signal": strictly more Buy votes, strictly more Sell
\* votes, or Neutral.
FinalSignalBuyOnTie(signals) ==
    IF Count(signals, "Buy") >= Count(signals, "Sell") THEN "Buy" ELSE "Sell"

FinalSignal(signals) ==
    IF Count(signals, "Buy") > Count(signals, "Sell") THEN "Buy"
    ELSE IF Count(signals, "Sell") > Count(signals, "Buy") THEN "Sell"
    ELSE "Neutral"

\* The dict returned before any vote: only the key "Signal".
NeutralOnly == [Signal |-> "Neutral", full |-> FALSE, signals |-> <<>>, rows |-> 0]

\* The test "len(df) < 20" on the sorted, de-duplicated frame.
Insufficient(df) == Len(df) < MinRows

\* The values of the latest row the returned dict carries, unrounded:
\* fractions for the moving averages and the RSI, EmaScale units for MACD,
\* the window sums for the Bollinger bands.
Snapshot(df) ==
    LET ma   == calculate_moving_averages(df)
        m    == calculate_macd(df)
        last == df[Len(df)]
    IN  [Short_MA |-> ma.short_ma, Long_MA |-> ma.long_ma,
         MACD_Current |-> m.macd, MACD_Signal |-> m.signal,
         RSI_Current |-> calculate_rsi(df),
         Bollinger |-> calculate_bollinger_bands(df),
         Bollinger_Current |-> IF last.numeric THEN Num(last.close) ELSE NotNum]

\* analyze_technical_indicators(historical_data, symbol) of main_new.py.
\* full tells whether the returned dict carries the indicator keys.
analyze_technical_indicators(h) ==
    IF h.content = <<>> THEN NeutralOnly
    ELSE IF ~h.closePrice THEN NeutralOnly
    ELSE
      LET df == Normalized(h.content)
      IN  IF Insufficient(df) THEN NeutralOnly
          ELSE
            LET signals == SignalsOf(<<MAVote(df), BollingerVote(df),
                                       MACDVote(df), RSIVote(df)>>)
            IN  [Signal |-> FinalSignal(signals), full |-> TRUE,
                 signals |-> signals, rows |-> Len(df), snapshot |-> Snapshot(df)]

(***************************************************************************)
(* Technical analysis of new.py: no sort, no de-duplication, every rolling *)
(* window with min_periods=1, "elif" on the moving averages and on MACD,   *)
(* and the verdict taken as max(set(signals), key=signals.count).          *)
(***************************************************************************)
\* Bollinger bands over the numeric closes of the last 20 rows; the std
\* (ddof = 1) needs two of them.
calculate_bollinger_bands_new(df) ==
    LET win == LastRows(df, BollingerWindow)
    IN  [n       |-> NumericBars(win),
         sum     |-> SumOver(win, 1, "close"),
         squares |-> SumOver(win, 1, "square")]

BollingerVoteNew(df) ==
    LET bb    == calculate_bollinger_bands_new(df)
        last  == df[Len(df)]
        dist  == bb.sum - bb.n * last.close
        wide  == (bb.n - 1) * dist * dist
                     > NumStd * NumStd * bb.n * (bb.n * bb.squares - bb.sum * bb.sum)
    IN  IF bb.n < 2 \/ ~last.numeric THEN "abstain"
        ELSE IF dist > 0 /\ wide THEN "Buy"
        ELSE IF dist < 0 /\ wide THEN "Sell"
        ELSE "abstain"

MAVoteNew(df) ==
    LET ma == calculate_moving_averages(df)
    IN  IF GT(ma.short_ma, ma.long_ma) THEN "Buy"
        ELSE IF LT(ma.short_ma, ma.long_ma) THEN "Sell"
        ELSE "abstain"

MACDVoteNew(df) ==
    LET m == calculate_macd(df)
    IN  IF ~(m.macd.numeric /\ m.signal.numeric) THEN "abstain"
        ELSE IF m.macd.v > m.signal.v THEN "Buy"
        ELSE IF m.macd.v < m.signal.v THEN "Sell"
        ELSE "abstain"

\* rolling(window, min_periods=1): the window is the rows there are.
calculate_rsi_new(df) ==
    LET from == Max(Len(df) - RsiWindow + 1, 1)
        G    == SumGain(df, from, TRUE)
        L    == SumGain(df, from, FALSE)
    IN  Frac(100 * G, G + L)

RSIVoteNew(df) ==
    LET rsi == calculate_rsi_new(df)
    IN  IF LT(rsi, Frac(RsiBuyBelow, 1)) THEN "Buy"
        ELSE IF GT(rsi, Frac(RsiSellAbove, 1)) THEN "Sell"
        ELSE "abstain"

\* max(set(signals), key=signals.count): an element of the largest count;
\* among elements of equal count the one the set iterates first, which the
\* string hashing of the run decides.  The set of values it can return.
MaxByCount(signals) ==
    { v \in {"Buy", "Sell"} :
        /\ Count(signals, v) > 0
        /\ \A u \in {"Buy", "Sell"} : Count(signals, u) <= Count(signals, v) }

\* analyze_technical_indicators(historical_data) of new.py: the verdicts it
\* can return.
analyze_technical_indicators_new(h) ==
    IF h.content = <<>> THEN {"Neutral"}
    ELSE IF ~h.closePrice \/ Len(h.content) < MinRows THEN {"Neutral"}
    ELSE
      LET df      == h.content
          signals == SignalsOf(<<MAVoteNew(df), BollingerVoteNew(df),
                                 MACDVoteNew(df), RSIVoteNew(df)>>)
      IN  IF signals = <<>> THEN {"Neutral"} ELSE MaxByCount(signals)

(***************************************************************************)
(* Buy/sell pressure.  price_change_pct = closePrice.pct_change() * 100,   *)
(* pressure = totalTradedQuantity * |price_change_pct|, summed over the    *)
(* rows with a positive and with a negative change.  Computed on the       *)
(* content list as retrieved.  Closes of the modelled histories divide     *)
(* PressureDen, so pressures are whole numbers of 1/PressureDen.  A row    *)
(* whose close or whose previous close is not numeric adds nothing (the    *)
(* modelled histories have such a row only first or last, where filling    *)
(* the gap forward or not gives the same sums).                            *)
(***************************************************************************)
PressureDen == 8 * 7 * 5 * 3

\* The pressure of row i with the sign of the change kept.
PressureSigned(df, i) ==
    IF i > 1 /\ df[i].numeric /\ df[i - 1].numeric /\ df[i - 1].close > 0
    THEN df[i].qty * (df[i].close - df[i - 1].close) * 100
             * (PressureDen \div df[i - 1].close)
    ELSE 0

Pressure(df, i) ==
    IF i > 1 /\ df[i].numeric /\ df[i - 1].numeric /\ df[i - 1].close > 0
    THEN df[i].qty * Abs(df[i].close - df[i - 1].close) * 100
             * (PressureDen \div df[i - 1].close)
    ELSE 0

RECURSIVE SumPressure(_, _, _)
\* Sum of Pressure over rows k .. Len(df) with a change of sign dir.
SumPressure(df, k, dir) ==
    IF k > Len(df) THEN 0
    ELSE (IF Delta(df, k) * dir > 0 THEN Pressure(df, k) ELSE 0)
         + SumPressure(df, k + 1, dir)

\* (buy_pressure, sell_pressure) in units of 1/PressureDen.
calculate_buy_sell_pressure(h) ==
    IF h.content = <<>> THEN [buy |-> 0, sell |-> 0]
    ELSE IF ~h.closePrice \/ ~h.totalTradedQuantity THEN [buy |-> 0, sell |-> 0]
    ELSE [buy  |-> SumPressure(h.content, 1, 1),
          sell |-> SumPressure(h.content, 1, -1)]

\* int(x) of a pressure: truncation toward zero.
IntOf(x) == IF x >= 0 THEN x \div PressureDen ELSE -((-x) \div PressureDen)

(***************************************************************************)
(* Sentiment aggregator.  A news item carries publishedDate (well formed,  *)
(* "bad" when strptime rejects it, "missing" when the key is absent), the  *)
(* whole days since it (days_old) and the polarity TextBlob gives its      *)
(* text, in hundredths.  polarity * weight, weight = max(0, 1 - d/30), is  *)
(* polarity * max(0, 30 - d) in units of 1/(100 * 30).                     *)
(***************************************************************************)
DecayDays == 30

NewsItem(d, pol) == [publishedDate |-> "ok", days_old |-> d, polarity |-> pol]
BadDateItem(pol) == [publishedDate |-> "bad", days_old |-> 0, polarity |-> pol]
MissingDateItem(pol) == [publishedDate |-> "missing", days_old |-> 0, polarity |-> pol]

\* polarity * weight without the max(0, .).
WeightedUnclamped(item) == item.polarity * (DecayDays - item.days_old)

Weighted(item) == item.polarity * Max(0, DecayDays - item.days_old)

RECURSIVE SumScores(_, _)
SumScores(items, k) ==
    IF k > Len(items) THEN 0 ELSE Weighted(items[k]) + SumScores(items, k + 1)

\* The items before the first one whose date raises.
WellFormedPrefix(items) ==
    LET bad == { i \in 1 .. Len(items) : items[i].publishedDate # "ok" }
    IN  IF bad = {} THEN items
        ELSE SubSeq(items, 1, (CHOOSE i \in bad : \A j \in bad : i <= j) - 1)

Mean(scores) ==
    IF scores = <<>> THEN Frac(0, 1)
    ELSE Frac(SumScores(scores, 1), 100 * DecayDays * Len(scores))

\* news_dict.get(symbol, []) with another symbol's news as the default.
StockNewsOfAny(symbol, nd) ==
    IF symbol \in DOMAIN nd THEN nd[symbol]
    ELSE IF DOMAIN nd = {} THEN <<>>
    ELSE nd[CHOOSE s \in DOMAIN nd : TRUE]

\* news_dict.get(symbol, [])
StockNews(symbol, nd) ==
    IF symbol \in DOMAIN nd THEN nd[symbol] ELSE <<>>

\* analyze_news_sentiment of main_new.py: the whole body is in the try, an
\* exception returns 0.
analyze_news_sentiment(symbol, nd) ==
    LET stock_news == StockNews(symbol, nd)
    IN  IF stock_news = <<>> THEN Frac(0, 1)
        ELSE IF WellFormedPrefix(stock_news) # stock_news THEN Frac(0, 1)
        ELSE Mean(stock_news)

\* analyze_news_sentiment of new.py: only the loop is in the try, the scores
\* appended before the exception are averaged.
analyze_news_sentiment_new(symbol, nd) ==
    LET stock_news == StockNews(symbol, nd)
    IN  IF stock_news = <<>> THEN Frac(0, 1)
        ELSE Mean(WellFormedPrefix(stock_news))

\* round(x, 2) of a fraction, in hundredths, ties to even.
Round2(f) ==
    LET n == 100 * f.num
        q == n \div f.den
        r == n - q * f.den
    IN  IF 2 * r > f.den THEN q + 1
        ELSE IF 2 * r < f.den THEN q
        ELSE IF q % 2 = 0 THEN q ELSE q + 1

\* round(x, 2) of a value that may be NaN, as a column value in hundredths.
RoundFrac(f) == IF IsNaN(f) THEN NotNum ELSE Num(Round2(f))
RoundFixed(x) == IF x.numeric THEN Num(Round2(Frac(x.v, EmaScale))) ELSE NotNum

RECURSIVE ISqrtIn(_, _, _)
ISqrtIn(x, lo, hi) ==
    IF lo = hi THEN lo
    ELSE LET mid == (lo + hi + 1) \div 2
         IN  IF mid * mid <= x THEN ISqrtIn(x, mid, hi) ELSE ISqrtIn(x, lo, mid - 1)

\* The integer square root.
ISqrt(x) == ISqrtIn(x, 0, 46340)

\* Bollinger_Min = middle_band - 2 std and Bollinger_Max = middle_band + 2 std,
\* rounded: in hundredths, the band half-width 2 std rounded down.
BandHalfWidth(bb) ==
    LET n == BollingerWindow
    IN  ISqrt((NumStd * NumStd * (n * bb.squares - bb.sum * bb.sum) * 10000)
                  \div (n * (n - 1)))

RoundBand(bb, side) ==
    IF ~bb.defined THEN NotNum
    ELSE Num(Round2(Frac(bb.sum, BollingerWindow)) + side * BandHalfWidth(bb))

(***************************************************************************)
(* Decision engine of analyze_stock.                                       *)
(***************************************************************************)

\* "Final decision": Buy, Sell or the initial "Hold".
FinalDecisionLoose(bp, sp) ==
    IF bp >= QuorumPoints - 1 /\ bp > sp THEN "Buy"
    ELSE IF sp >= QuorumPoints - 1 /\ sp > bp THEN "Sell"
    ELSE "Hold"

FinalDecision(bp, sp) ==
    IF bp >= QuorumPoints /\ bp > sp THEN "Buy"
    ELSE IF sp >= QuorumPoints /\ sp > bp THEN "Sell"
    ELSE "Hold"

\* Sentiment signals: if sentiment > 0.05 ... elif sentiment < -0.05.
SentimentBuyPointDouble(s) == IF FracGT(s, SentimentBuyThreshold) THEN 2 ELSE 0

SentimentBuyPoint(s) == IF FracGT(s, SentimentBuyThreshold) THEN 1 ELSE 0
SentimentSellPoint(s) ==
    IF FracGT(s, SentimentBuyThreshold) THEN 0
    ELSE IF FracLT(s, SentimentSellThreshold) THEN 1 ELSE 0

\* Pressure signals of main_new.py and new.py: strict threshold at zero.
PressureBuyPointInverted(net) == IF net < 0 THEN 1 ELSE 0

PressureBuyPoint(net) == IF net > 0 THEN 1 ELSE 0
PressureSellPoint(net) == IF net > 0 THEN 0 ELSE IF net < 0 THEN 1 ELSE 0

\* Pressure signals of main.py: pressure_threshold = abs(net_pressure) * 0.3,
\* compared exactly as 10 * net against 3 * abs(net).
ThresholdTenths == 3

\* The comparison taken as >= in place of >.
ThresholdBuyPointAtLeast(net) == IF 10 * net >= ThresholdTenths * Abs(net) THEN 1 ELSE 0

ThresholdBuyPoint(net) == IF 10 * net > ThresholdTenths * Abs(net) THEN 1 ELSE 0
ThresholdSellPoint(net) ==
    IF 10 * net > ThresholdTenths * Abs(net) THEN 0
    ELSE IF 10 * net < -(ThresholdTenths * Abs(net)) THEN 1 ELSE 0

\* Technical signals of main_new.py and new.py: == "Buy" ... elif == "Sell".
TechnicalBuyPointsHeavy(ts) == IF ts = "Buy" THEN TechnicalPoints + 1 ELSE 0

TechnicalBuyPoints(ts) == IF ts = "Buy" THEN TechnicalPoints ELSE 0
TechnicalSellPoints(ts) == IF ts = "Sell" THEN TechnicalPoints ELSE 0

\* The decision matrix of main_new.py and new.py.
DecisionMatrix(ts, net, s) ==
    LET bp == TechnicalBuyPoints(ts) + PressureBuyPoint(net) + SentimentBuyPoint(s)
        sp == TechnicalSellPoints(ts) + PressureSellPoint(net) + SentimentSellPoint(s)
    IN  [buy_points |-> bp, sell_points |-> sp, signal |-> FinalDecision(bp, sp)]

\* The decision matrix of main.py.  Its technical test is "Buy" in
\* technical_signal on the verdict string, which for the verdicts Buy, Sell
\* and Neutral is the equality test.
DecisionMatrixThreshold(ts, net, s) ==
    LET bp == TechnicalBuyPoints(ts) + ThresholdBuyPoint(net) + SentimentBuyPoint(s)
        sp == TechnicalSellPoints(ts) + ThresholdSellPoint(net) + SentimentSellPoint(s)
    IN  [buy_points |-> bp, sell_points |-> sp, signal |-> FinalDecision(bp, sp)]

Decide(e, ts, net, s) ==
    IF e = "threshold" THEN DecisionMatrixThreshold(ts, net, s)
    ELSE DecisionMatrix(ts, net, s)

(***************************************************************************)
(* Histories the retrieval service answers with.  Closes are positive and  *)
(* divide PressureDen; 0 in a list of closes stands for a JSON null.       *)
(***************************************************************************)
Quantity == 10

\* Each value of vals repeated rep times.
Ramp(vals, rep) == [i \in 1 .. Len(vals) * rep |-> vals[((i - 1) \div rep) + 1]]

\* One bar a day from day 1, in date order.
Bars(closes) ==
    [i \in 1 .. Len(closes) |->
        IF closes[i] = 0 THEN NullBar(i, Quantity) ELSE Bar(i, closes[i], Quantity)]

NoData == History(<<>>)
ShortRising == History(Bars(Ramp(<<1, 2, 3, 4, 5, 6>>, 3) \o <<7>>))
Constant == History(Bars(Ramp(<<4>>, 20)))
Rising == History(Bars(Ramp(<<1, 2, 3, 4, 5, 6, 7>>, 3)))
Falling == History(Bars(Ramp(<<7, 6, 5, 4, 3, 2, 1>>, 3)))
Spike == History(Bars(Ramp(<<4>>, 19) \o <<8>>))
Drop == History(Bars(Ramp(<<4>>, 19) \o <<1>>))
NullFirstRising == History(Bars(<<0>> \o Ramp(<<1, 2, 3, 4, 5, 6>>, 3) \o <<7>>))
NullLastRising == History(Bars(Ramp(<<1, 2, 3, 4, 5, 6>>, 3) \o <<7, 0>>))
\* Rising with the last day reported twice: 22 records, 21 dates.
RepeatedDay == History(Rising.content \o <<Bar(21, 8, Quantity)>>)
\* 20 records on 19 dates.
RepeatedShort == History(ShortRising.content \o <<Bar(19, 8, Quantity)>>)
\* Records that carry no closePrice field.
NoCloseField ==
    [closePrice |-> FALSE, totalTradedQuantity |-> TRUE, content |-> Rising.content]
\* Records that carry no totalTradedQuantity field.
NoQuantityField ==
    [closePrice |-> TRUE, totalTradedQuantity |-> FALSE, content |-> Rising.content]

Catalogue ==
    {NoData, ShortRising, Constant, Rising, Falling, Spike, Drop,
     NullFirstRising, NullLastRising, RepeatedDay, RepeatedShort, NoCloseField,
     NoQuantityField}

(***************************************************************************)
(* analyze_stock.                                                          *)
(***************************************************************************)
NoRecord ==
    [Symbol |-> "", Final_Signal |-> "", Technical_Signal |-> "", Sentiment_Score |-> 0,
     Buy_Pressure |-> 0, Sell_Pressure |-> 0, Net_Pressure |-> 0]

\* What a call of analyze_stock ends with: a result record, None, or an
\* exception that leaves the function.
Returned(rec) == [kind |-> "record", record |-> rec]
ReturnedNone == [kind |-> "None", record |-> NoRecord]
Raised == [kind |-> "raised", record |-> NoRecord]
NotDone == [kind |-> "running", record |-> NoRecord]

\* The roster entry carries the keys "id" and "symbol".
Stock(sym) == [has_id |-> TRUE, has_symbol |-> TRUE, symbol |-> sym]
StockWithoutId(sym) == [has_id |-> FALSE, has_symbol |-> TRUE, symbol |-> sym]
StockWithoutSymbol(sym) == [has_id |-> TRUE, has_symbol |-> FALSE, symbol |-> sym]

\* security_id = stock["id"]; symbol = stock["symbol"] raise KeyError inside
\* the try; the handler formats symbol, which is not bound yet.
BindsSymbol(stock) == stock.has_id /\ stock.has_symbol

\* The locals of analyze_stock once the metrics are calculated.
\* ta is what analyze_technical_indicators returned.
Locals(e, stock, h, nd, ta) ==
    LET p == calculate_buy_sell_pressure(h)
        s == IF e = "main_new" THEN analyze_news_sentiment(stock.symbol, nd)
             ELSE analyze_news_sentiment_new(stock.symbol, nd)
    IN  [buy_pressure |-> p.buy, sell_pressure |-> p.sell,
         net_pressure |-> p.buy - p.sell,
         technical_analysis |-> ta,
         sentiment |-> s,
         decision |-> DecisionMatrix(ta.Signal, p.buy - p.sell, s)]

\* The dict analyze_stock of new.py returns.
ResultRecord(stock, l) ==
    [Symbol |-> stock.symbol,
     Final_Signal |-> l.decision.signal,
     Technical_Signal |-> l.technical_analysis.Signal,
     Sentiment_Score |-> Round2(l.sentiment),
     Buy_Pressure |-> IntOf(l.buy_pressure),
     Sell_Pressure |-> IntOf(l.sell_pressure),
     Net_Pressure |-> IntOf(l.net_pressure)]

\* The dict analyze_stock of main_new.py returns; the indicator columns are
\* rounded to two decimals, kept in hundredths.
ResultRecordMainNew(stock, l) ==
    LET snap == l.technical_analysis.snapshot
    IN  [Symbol |-> stock.symbol,
         Final_Signal |-> l.decision.signal,
         Sentiment_Score |-> Round2(l.sentiment),
         Buy_Pressure |-> IntOf(l.buy_pressure),
         Sell_Pressure |-> IntOf(l.sell_pressure),
         Net_Pressure |-> IntOf(l.net_pressure),
         Bollinger_Min |-> RoundBand(snap.Bollinger, -1),
         Bollinger_Max |-> RoundBand(snap.Bollinger, 1),
         Bollinger_Current |-> IF snap.Bollinger_Current.numeric
                               THEN Num(100 * snap.Bollinger_Current.v) ELSE NotNum,
         MACD_Current |-> RoundFixed(snap.MACD_Current),
         MACD_Signal |-> RoundFixed(snap.MACD_Signal),
         RSI_Current |-> RoundFrac(snap.RSI_Current),
         Short_MA |-> RoundFrac(snap.Short_MA),
         Long_MA |-> RoundFrac(snap.Long_MA)]

\* analyze_stock of main_new.py from the retrieved history on: None when
\* there is no data; the dict literal reads technical_analysis
\* ["Bollinger_Min"] and the other indicator keys, a KeyError when the
\* technical analysis returned only "Signal", caught by the handler.
analyze_stock(stock, h, l) ==
    IF h.content = <<>> THEN ReturnedNone
    ELSE IF ~l.technical_analysis.full THEN ReturnedNone
    ELSE Returned(ResultRecordMainNew(stock, l))

\* analyze_stock of new.py from the retrieved history on.
analyze_stock_new(stock, h, l) == Returned(ResultRecord(stock, l))

(***************************************************************************)
(* send_signals: the fan-out over a thread pool, the collection in         *)
(* completion order, and the ranking and writing of the output.            *)
(***************************************************************************)
MaxWorkers == 10

NoFile == [written |-> FALSE, Overall |-> <<>>]

NoLocals ==
    [buy_pressure |-> 0, sell_pressure |-> 0, net_pressure |-> 0,
     technical_analysis |-> NeutralOnly, sentiment |-> Frac(0, 1),
     decision |-> NoDecision]

Pending == [state |-> "pending", historical_data |-> NoData, locals |-> NoLocals,
            outcome |-> NotDone]

Indices == 1 .. Len(stocks)

Filter(rs, sig) == SelectSeq(rs, LAMBDA r : r.Final_Signal = sig)

\* The sort keys of new.py: (-(Technical Signal == side), -/+ Net Pressure,
\* -/+ Sentiment Score), the sign negative for the Buy list.
SortKey(r, side) ==
    LET sgn == IF side = "Buy" THEN -1 ELSE 1
    IN  <<IF r.Technical_Signal = side THEN -1 ELSE 0,
          sgn * r.Net_Pressure, sgn * r.Sentiment_Score>>

\* Tuple comparison a <= b.
KeyLE(a, b) ==
    \/ a[1] < b[1]
    \/ a[1] = b[1] /\ a[2] < b[2]
    \/ a[1] = b[1] /\ a[2] = b[2] /\ a[3] <= b[3]

RECURSIVE sorted(_, _)
\* sorted(rs, key=...): stable.
sorted(rs, side) ==
    IF rs = <<>> THEN <<>>
    ELSE LET head == sorted(SubSeq(rs, 1, Len(rs) - 1), side)
             r    == rs[Len(rs)]
             k    == Cardinality({ i \in 1 .. Len(head) :
                                     KeyLE(SortKey(head[i], side), SortKey(r, side)) })
         IN  SubSeq(head, 1, k) \o <<r>> \o SubSeq(head, k + 1, Len(head))

\* The three categories concatenated without the sorting.
categorized_results(rs) ==
    Filter(rs, "Buy") \o Filter(rs, "Sell") \o Filter(rs, "Hold")

\* signals.csv of new.py: sorted_results.
sorted_results(rs) ==
    sorted(Filter(rs, "Buy"), "Buy") \o sorted(Filter(rs, "Sell"), "Sell")
        \o Filter(rs, "Hold")

\* Difference of two column values; NaN when either is.
Minus(a, b) == IF a.numeric /\ b.numeric THEN Num(a.v - b.v) ELSE NotNum

\* The Score column of an indicator sheet, in hundredths.
Score(r, indicator, side) ==
    IF indicator = "Bollinger"
    THEN IF side = "Buy" THEN Minus(r.Bollinger_Min, r.Bollinger_Current)
         ELSE Minus(r.Bollinger_Current, r.Bollinger_Max)
    ELSE IF indicator = "MACD"
    THEN IF side = "Buy" THEN Minus(r.MACD_Current, r.MACD_Signal)
         ELSE Minus(r.MACD_Signal, r.MACD_Current)
    ELSE IF indicator = "RSI"
    THEN IF side = "Buy" THEN Minus(Num(100 * RsiBuyBelow), r.RSI_Current)
         ELSE Minus(r.RSI_Current, Num(100 * RsiSellAbove))
    ELSE IF side = "Buy" THEN Minus(r.Short_MA, r.Long_MA)
         ELSE Minus(r.Long_MA, r.Short_MA)

\* results_df.columns: the keys of the collected dicts.
Columns(rs) == UNION { DOMAIN rs[k] : k \in DOMAIN rs }

\* The columns the scoring of a sheet is guarded on.
RequiredColumns(indicator, side) ==
    IF indicator = "Bollinger"
    THEN IF side = "Buy" THEN {"Bollinger_Min", "Bollinger_Current"}
         ELSE {"Bollinger_Current", "Bollinger_Max"}
    ELSE IF indicator = "MACD" THEN {"MACD_Current", "MACD_Signal"}
    ELSE IF indicator = "RSI" THEN {"RSI_Current"}
    ELSE {"Short_MA", "Long_MA"}

\* The sheet got its Score column.
HasScore(rs, indicator, side) == RequiredColumns(indicator, side) \subseteq Columns(rs)

\* The whole of results_df with a Score.
SheetOfAll(rs, indicator, side) ==
    [k \in 1 .. Len(rs) |-> [row |-> rs[k], Score |-> Score(rs[k], indicator, side)]]

\* results_df[results_df["Final Signal"] == side].copy() with its Score.
Sheet(rs, indicator, side) ==
    LET rows == Filter(rs, side)
    IN  [k \in 1 .. Len(rows) |-> [row |-> rows[k], Score |-> Score(rows[k], indicator, side)]]

\* sort_values(by="Score", ascending=False): the orders it can give.  Rows
\* with a NaN Score come last, in their order; the default sort is not
\* stable, rows of equal Score come in any order.
sort_by_score(sheet) ==
    LET n == Len(sheet)
        perms == { p \in [1 .. n -> 1 .. n] : \A a, b \in 1 .. n : a # b => p[a] # p[b] }
        ordered(p) ==
            \A a, b \in 1 .. n :
                a < b =>
                    LET x == sheet[p[a]].Score
                        y == sheet[p[b]].Score
                    IN  /\ x.numeric \/ ~y.numeric
                        /\ (x.numeric /\ y.numeric) => x.v >= y.v
                        /\ (~x.numeric /\ ~y.numeric) => p[a] < p[b]
    IN  { [k \in 1 .. n |-> sheet[p[k]]] : p \in { q \in perms : ordered(q) } }

PipelineIdle ==
    /\ variant = "none"
    /\ stocks = <<>>
    /\ news_dict = <<>>
    /\ retrievable = {}
    /\ worker = <<>>
    /\ results = <<>>
    /\ pc = "idle"
    /\ output = NoFile

FetchIdle ==
    /\ attempt = 0
    /\ requests = 0
    /\ response = "none"

RerunIdle == rerun_signal = "none"

DecisionIdle ==
    /\ engine = "none"
    /\ technical_signal = "Neutral"
    /\ net_pressure = 0
    /\ sentiment = Frac(0, 1)
    /\ decision = NoDecision
    /\ earlier = NoDecision
    /\ votes = <<>>

\* The worker of stock i starts: it binds id and symbol and runs the
\* retrieval loop, which ends with a history (an empty one when every
\* attempt failed).
Fetch(i) ==
    /\ worker[i].state = "pending"
    /\ Cardinality({ j \in Indices : worker[j].state = "fetched" }) < MaxWorkers
    /\ IF BindsSymbol(stocks[i])
       THEN \E h \in retrievable :
               worker' = [worker EXCEPT ![i].state = "fetched",
                                        ![i].historical_data = h]
       ELSE worker' = [worker EXCEPT ![i].state = "done", ![i].outcome = Raised]
    /\ UNCHANGED <<variant, stocks, news_dict, retrievable, results, pc, output>>
    /\ UNCHANGED dvars
    /\ UNCHANGED fvars
    /\ UNCHANGED rvars

\* The worker of stock i calculates the metrics, decides and returns.
Analyze(i) ==
    /\ worker[i].state = "fetched"
    /\ variant \in {"main_new", "new"}
    /\ LET h == worker[i].historical_data
       IN  IF variant = "main_new"
           THEN LET l == Locals(variant, stocks[i], h, news_dict,
                                analyze_technical_indicators(h))
                IN  worker' = [worker EXCEPT
                                 ![i].state = "done",
                                 ![i].locals = IF h.content = <<>> THEN NoLocals ELSE l,
                                 ![i].outcome = analyze_stock(stocks[i], h, l)]
           ELSE \E ts \in analyze_technical_indicators_new(h) :
                  LET l == Locals(variant, stocks[i], h, news_dict,
                                  [NeutralOnly EXCEPT !.Signal = ts])
                  IN  worker' = [worker EXCEPT
                                   ![i].state = "done",
                                   ![i].locals = l,
                                   ![i].outcome = analyze_stock_new(stocks[i], h, l)]
    /\ UNCHANGED <<variant, stocks, news_dict, retrievable, results, pc, output>>
    /\ UNCHANGED dvars
    /\ UNCHANGED fvars
    /\ UNCHANGED rvars

CollectTwice(i) ==
    /\ pc = "collect"
    /\ worker[i].state = "done"
    /\ worker' = [worker EXCEPT ![i].state = "yielded"]
    /\ IF worker[i].outcome.kind = "raised"
       THEN pc' = "raised" /\ results' = results
       ELSE IF worker[i].outcome.kind = "None"
       THEN pc' = pc /\ results' = results
       ELSE pc' = pc /\ results' = Append(Append(results, worker[i].outcome.record),
                                          worker[i].outcome.record)
    /\ UNCHANGED <<variant, stocks, news_dict, retrievable, output>>
    /\ UNCHANGED dvars
    /\ UNCHANGED fvars
    /\ UNCHANGED rvars

\* as_completed yields the finished future i; future.result() re-raises
\* what the call raised, None is skipped, a record is appended.
Collect(i) ==
    /\ pc = "collect"
    /\ worker[i].state = "done"
    /\ worker' = [worker EXCEPT ![i].state = "yielded"]
    /\ IF worker[i].outcome.kind = "raised"
       THEN pc' = "raised" /\ results' = results
       ELSE IF worker[i].outcome.kind = "None"
       THEN pc' = pc /\ results' = results
       ELSE pc' = pc /\ results' = Append(results, worker[i].outcome.record)
    /\ UNCHANGED <<variant, stocks, news_dict, retrievable, output>>
    /\ UNCHANGED dvars
    /\ UNCHANGED fvars
    /\ UNCHANGED rvars

NonePending == \A i \in Indices : worker[i].state # "pending"

\* The for loop over as_completed(futures) has taken every future.
AllYielded == \A i \in Indices : worker[i].state = "yielded"

\* main_new.py after the pool: nothing is written when results is empty;
\* else the Overall sheet is results and each indicator sheet is the Buy or
\* the Sell rows, scored and sorted by Score descending.  A sheet whose
\* columns are missing gets no Score, and its sort_values(by="Score")
\* raises KeyError before anything is written.
FinishMainNew ==
    /\ pc = "collect" /\ variant = "main_new" /\ AllYielded
    /\ IF results = <<>>
       THEN pc' = "returned" /\ output' = output
       ELSE IF \E indicator \in {"Bollinger", "MACD", "RSI", "MA"}, side \in {"Buy", "Sell"} :
                  ~HasScore(results, indicator, side)
       THEN pc' = "raised" /\ output' = output
       ELSE /\ pc' = "written"
            /\ output' \in
                 { [written |-> TRUE, Overall |-> results,
                    Bollinger_Buy |-> bb, Bollinger_Sell |-> bs,
                    MACD_Buy |-> mb, MACD_Sell |-> ms,
                    RSI_Buy |-> rb, RSI_Sell |-> rs,
                    MA_Buy |-> ab, MA_Sell |-> as] :
                   bb \in sort_by_score(Sheet(results, "Bollinger", "Buy")),
                   bs \in sort_by_score(Sheet(results, "Bollinger", "Sell")),
                   mb \in sort_by_score(Sheet(results, "MACD", "Buy")),
                   ms \in sort_by_score(Sheet(results, "MACD", "Sell")),
                   rb \in sort_by_score(Sheet(results, "RSI", "Buy")),
                   rs \in sort_by_score(Sheet(results, "RSI", "Sell")),
                   ab \in sort_by_score(Sheet(results, "MA", "Buy")),
                   as \in sort_by_score(Sheet(results, "MA", "Sell")) }
    /\ UNCHANGED <<variant, stocks, news_dict, retrievable, worker, results>>
    /\ UNCHANGED dvars
    /\ UNCHANGED fvars
    /\ UNCHANGED rvars

\* new.py (and main.py) after the pool: categorize, sort, write signals.csv.
FinishNew ==
    /\ pc = "collect" /\ variant \in {"new", "main"} /\ AllYielded
    /\ pc' = "written"
    /\ output' = [written |-> TRUE, Overall |-> sorted_results(results)]
    /\ UNCHANGED <<variant, stocks, news_dict, retrievable, worker, results>>
    /\ UNCHANGED dvars
    /\ UNCHANGED fvars
    /\ UNCHANGED rvars

Next ==
    \/ \E i \in Indices : Fetch(i)
    \/ \E i \in Indices : Analyze(i)
    \/ \E i \in Indices : Collect(i)
    \/ FinishMainNew
    \/ FinishNew

\* Rosters, news indexes and histories of the runs explored.
NumStocks == 2
Symbols == [i \in 1 .. NumStocks + 1 |-> <<"S", i>>]

Rosters ==
    UNION { [1 .. n -> {"ok", "no_id"}] : n \in 0 .. NumStocks }

RosterOf(kinds) ==
    [i \in 1 .. Len(kinds) |->
        IF kinds[i] = "ok" THEN Stock(Symbols[i]) ELSE StockWithoutId(Symbols[i])]

\* A news index: no news at all, or good recent news on the first symbol
\* and bad recent news on the second.
NoNews == <<>>
SomeNews ==
    (Symbols[1] :> <<NewsItem(0, 50), NewsItem(3, 30)>>)
        @@ (Symbols[2] :> <<NewsItem(1, -60)>>)

RunHistories == {NoData, ShortRising, Rising, Falling}

Init ==
    /\ variant \in {"main_new", "new"}
    /\ \E kinds \in Rosters : stocks = RosterOf(kinds)
    /\ news_dict \in {NoNews, SomeNews}
    /\ retrievable = RunHistories
    /\ worker = [i \in 1 .. Len(stocks) |-> Pending]
    /\ results = <<>>
    /\ pc = "collect"
    /\ output = NoFile
    /\ DecisionIdle
    /\ FetchIdle
    /\ RerunIdle

Spec == Init /\ [][Next]_vars

(***************************************************************************)
(* Specification of one call of analyze_stock: a roster of one entry,      *)
(* every history of the catalogue, more news indexes.                      *)
(***************************************************************************)
\* News on the second symbol only, and an index whose second item on the
\* first symbol has a date strptime rejects.
OtherNews == Symbols[2] :> <<NewsItem(1, -60)>>
BadDateNews == Symbols[1] :> <<NewsItem(2, 40), BadDateItem(80), NewsItem(0, -20)>>
EmptyListNews == Symbols[1] :> <<>>

AnalysisInit ==
    /\ variant \in {"main_new", "new"}
    /\ stocks \in { <<Stock(Symbols[1])>>, <<StockWithoutId(Symbols[1])>>,
                    <<StockWithoutSymbol(Symbols[1])>> }
    /\ news_dict \in {NoNews, SomeNews, OtherNews, BadDateNews, EmptyListNews}
    /\ retrievable = Catalogue
    /\ worker = [i \in 1 .. Len(stocks) |-> Pending]
    /\ results = <<>>
    /\ pc = "collect"
    /\ output = NoFile
    /\ DecisionIdle
    /\ FetchIdle
    /\ RerunIdle

AnalysisSpec == AnalysisInit /\ [][Next]_vars

(***************************************************************************)
(* Specification of the technical signal resolver alone: the four votes    *)
(* are drawn, the resolver of main_new.py settles the verdict.             *)
(***************************************************************************)
ResolverInit ==
    /\ votes \in [1 .. 4 -> {"Buy", "Sell", "abstain"}]
    /\ technical_signal = "none"
    /\ engine = "none"
    /\ net_pressure = 0
    /\ sentiment = Frac(0, 1)
    /\ decision = NoDecision
    /\ earlier = NoDecision
    /\ PipelineIdle
    /\ FetchIdle
    /\ RerunIdle

Resolve ==
    /\ technical_signal = "none"
    /\ technical_signal' = FinalSignal(SignalsOf(votes))
    /\ UNCHANGED <<engine, net_pressure, sentiment, decision, earlier, votes>>
    /\ UNCHANGED pvars
    /\ UNCHANGED fvars
    /\ UNCHANGED rvars

ResolverNext == Resolve

ResolverSpec == ResolverInit /\ [][ResolverNext]_vars

(***************************************************************************)
(* Specification of the decision engine alone: the three inputs are drawn  *)
(* from bounded sets, the engine decides, and the net pressure may then be *)
(* raised and the decision retaken.                                        *)
(***************************************************************************)
MaxNet == 2
NetRange == (-MaxNet .. MaxNet) \cup {-500, 500}

\* Sentiments in hundredths, on and around both thresholds.
MaxSentimentStep == 2
SentimentRange ==
    {0, 20, -20} \cup { SentimentBuyThreshold + k : k \in -1 .. MaxSentimentStep }
                 \cup { SentimentSellThreshold - k : k \in -1 .. MaxSentimentStep }

DecisionInit ==
    /\ engine \in {"strict", "threshold"}
    /\ technical_signal \in Verdicts
    /\ net_pressure \in NetRange
    /\ sentiment \in { Frac(h, 100) : h \in SentimentRange }
    /\ decision = NoDecision
    /\ earlier = NoDecision
    /\ votes = <<>>
    /\ PipelineIdle
    /\ FetchIdle
    /\ RerunIdle

\* The decision matrix runs on the inputs.
RunDecisionMatrix ==
    /\ decision = NoDecision
    /\ decision' = Decide(engine, technical_signal, net_pressure, sentiment)
    /\ UNCHANGED <<engine, technical_signal, net_pressure, sentiment, earlier, votes>>
    /\ UNCHANGED pvars
    /\ UNCHANGED fvars
    /\ UNCHANGED rvars

\* The same instrument with a higher net pressure, verdict and sentiment fixed.
RaiseNetPressure ==
    /\ decision # NoDecision
    /\ earlier = NoDecision
    /\ \E n \in NetRange :
        /\ n > net_pressure
        /\ net_pressure' = n
        /\ decision' = Decide(engine, technical_signal, n, sentiment)
    /\ earlier' = decision
    /\ UNCHANGED <<engine, technical_signal, sentiment, votes>>
    /\ UNCHANGED pvars
    /\ UNCHANGED fvars
    /\ UNCHANGED rvars

DecisionNext == RunDecisionMatrix \/ RaiseNetPressure

DecisionSpec == DecisionInit /\ [][DecisionNext]_vars

(***************************************************************************)
(* Specification of the sentiment aggregator alone: the news items of one  *)
(* symbol are drawn, analyze_news_sentiment of the script aggregates them. *)
(***************************************************************************)
MaxNews == 3
MaxDaysOld == 45

\* Ages in whole days: today, mid-window, the last weighted day, the first
\* fully decayed days, and an old item.
DaysOld == {0, 15, DecayDays - 1, DecayDays, DecayDays + 1, MaxDaysOld}

\* Polarities in hundredths.
Polarities == {-100, 50}

NewsItems ==
    { NewsItem(d, pol) : d \in DaysOld, pol \in Polarities }
        \cup {BadDateItem(100), MissingDateItem(-50)}

NewsLists == UNION { [1 .. n -> NewsItems] : n \in 0 .. MaxNews }

SentimentInit ==
    /\ variant \in {"main_new", "new"}
    /\ stocks = <<Stock(Symbols[1])>>
    /\ \E items \in NewsLists : news_dict = (Symbols[1] :> items)
    /\ retrievable = {}
    /\ worker = <<>>
    /\ results = <<>>
    /\ pc = "news"
    /\ output = NoFile
    /\ DecisionIdle
    /\ FetchIdle
    /\ RerunIdle

\* sentiment = analyze_news_sentiment(stock, news_dict)
Aggregate ==
    /\ pc = "news"
    /\ pc' = "aggregated"
    /\ sentiment' = IF variant = "main_new"
                    THEN analyze_news_sentiment(stocks[1].symbol, news_dict)
                    ELSE analyze_news_sentiment_new(stocks[1].symbol, news_dict)
    /\ UNCHANGED <<engine, technical_signal, net_pressure, decision, earlier, votes>>
    /\ UNCHANGED <<variant, stocks, news_dict, retrievable, worker, results, output>>
    /\ UNCHANGED fvars
    /\ UNCHANGED rvars

SentimentNext == Aggregate

SentimentSpec == SentimentInit /\ [][SentimentNext]_vars

(***************************************************************************)
(* Specification of the pressure calculation: analyze_stock runs on one    *)
(* instrument whose history is any short series of numeric closes and      *)
(* traded quantities, with or without the two fields.                      *)
(***************************************************************************)
MaxBars == 4

Closes == {1, 2, 4}
Quantities == {Quantity, 2 * Quantity}

\* Every series of up to MaxBars daily bars, the traded quantity growing
\* from day to day.
ShortSeries ==
    UNION { { [i \in 1 .. n |-> Bar(i, c[i], q * i)] :
                c \in [1 .. n -> Closes], q \in Quantities } :
            n \in 0 .. MaxBars }

PressureHistories ==
    { History(rows) : rows \in ShortSeries }
        \cup {Constant, Rising, Falling, NoCloseField, NoQuantityField}

PressureInit ==
    /\ variant \in {"main_new", "new"}
    /\ stocks = <<Stock(Symbols[1])>>
    /\ news_dict = NoNews
    /\ \E h \in PressureHistories : retrievable = {h}
    /\ worker = [i \in 1 .. Len(stocks) |-> Pending]
    /\ results = <<>>
    /\ pc = "collect"
    /\ output = NoFile
    /\ DecisionIdle
    /\ FetchIdle
    /\ RerunIdle

PressureSpec == PressureInit /\ [][Next]_vars

(***************************************************************************)
(* Specification of the ranking of new.py and main.py: send_signals has    *)
(* drained the pool, every instrument gave a record, and the records are   *)
(* categorized, sorted and written.  The locals of the finished calls are  *)
(* not kept.                                                               *)
(***************************************************************************)
MaxResults == 3

\* Whole net pressures and sentiments in hundredths of the ranked records.
RankNets == {-7, 0, 7}
RankSentiments == {-20, 0, 20}

\* The record analyze_stock of new.py returns for instrument i on a verdict,
\* a net pressure and a sentiment.
RankRecord(i, ts, net, s) ==
    [Symbol |-> <<"S", i>>,
     Final_Signal |-> DecisionMatrix(ts, net, Frac(s, 100)).signal,
     Technical_Signal |-> ts,
     Sentiment_Score |-> s,
     Buy_Pressure |-> Max(net, 0),
     Sell_Pressure |-> Max(-net, 0),
     Net_Pressure |-> net]

RankInputs == {"Buy", "Sell"} \X RankNets \X RankSentiments

RankingInit ==
    /\ variant = "new"
    /\ \E n \in 0 .. MaxResults :
         \E in \in [1 .. n -> RankInputs] :
            /\ stocks = [i \in 1 .. n |-> Stock(<<"S", i>>)]
            /\ results = [i \in 1 .. n |-> RankRecord(i, in[i][1], in[i][2], in[i][3])]
            /\ worker = [i \in 1 .. n |->
                             [Pending EXCEPT !.state = "yielded",
                                             !.outcome = Returned(results[i])]]
    /\ news_dict = NoNews
    /\ retrievable = {}
    /\ pc = "collect"
    /\ output = NoFile
    /\ DecisionIdle
    /\ FetchIdle
    /\ RerunIdle

RankingNext == FinishNew

RankingSpec == RankingInit /\ [][RankingNext]_vars

(***************************************************************************)
(* Specification of the indicator sheets of main_new.py: send_signals has  *)
(* drained the pool, each instrument was analysed on one of the histories  *)
(* below, and the sheets are scored, sorted and written.                   *)
(***************************************************************************)
MaxScored == 2

ScoringHistories == {Constant, Rising, Falling, RepeatedDay, NullLastRising, Spike}

\* The finished call of analyze_stock on a stock and a history.
FinishedCall(stock, h, nd) ==
    LET l == Locals("main_new", stock, h, nd, analyze_technical_indicators(h))
    IN  [state |-> "yielded", historical_data |-> h, locals |-> l,
         outcome |-> analyze_stock(stock, h, l)]

RECURSIVE Collected(_, _)
\* The records of the first n workers, in roster order.
Collected(w, n) ==
    IF n = 0 THEN <<>>
    ELSE IF w[n].outcome.kind = "record"
         THEN Append(Collected(w, n - 1), w[n].outcome.record)
         ELSE Collected(w, n - 1)

ScoringInit ==
    /\ variant = "main_new"
    /\ news_dict \in {NoNews, SomeNews}
    /\ \E n \in 0 .. MaxScored :
         \E hs \in [1 .. n -> ScoringHistories] :
            /\ stocks = [i \in 1 .. n |-> Stock(Symbols[i])]
            /\ worker = [i \in 1 .. n |-> FinishedCall(stocks[i], hs[i], news_dict)]
            /\ results = Collected(worker, n)
    /\ retrievable = ScoringHistories
    /\ pc = "collect"
    /\ output = NoFile
    /\ DecisionIdle
    /\ FetchIdle
    /\ RerunIdle

ScoringNext == FinishMainNew

ScoringSpec == ScoringInit /\ [][ScoringNext]_vars

(***************************************************************************)
(* Specification of send_signals of main_new.py on result dicts that lack  *)
(* indicator keys.  send_signals takes every dict that has "Symbol" and    *)
(* "Final Signal"; analyze_stock of main_new.py itself returns all the     *)
(* keys, so these runs are runs of send_signals over another producer of   *)
(* the records.                                                            *)
(***************************************************************************)
DroppedColumns ==
    {{}, {"RSI_Current"}, {"Bollinger_Min"}, {"MACD_Signal"}, {"Short_MA", "Long_MA"}}

\* The dict without the dropped keys.
Without(rec, dropped) == [f \in (DOMAIN rec) \ dropped |-> rec[f]]

BucketInit ==
    /\ variant = "main_new"
    /\ news_dict \in {NoNews, SomeNews}
    /\ \E n \in 0 .. MaxScored :
         \E hs \in [1 .. n -> ScoringHistories], dropped \in DroppedColumns :
            /\ stocks = [i \in 1 .. n |-> Stock(Symbols[i])]
            /\ worker =
                 [i \in 1 .. n |->
                     LET call == FinishedCall(stocks[i], hs[i], news_dict)
                     IN  [call EXCEPT !.outcome.record = Without(@, dropped)]]
            /\ results = Collected(worker, n)
    /\ retrievable = ScoringHistories
    /\ pc = "collect"
    /\ output = NoFile
    /\ DecisionIdle
    /\ FetchIdle
    /\ RerunIdle

BucketSpec == BucketInit /\ [][ScoringNext]_vars

(***************************************************************************)
(* Claims about the decision engine (DecisionSpec).                        *)
(***************************************************************************)
Decided == decision # NoDecision

\* The three directional conditions, stated on the inputs.
BuyConditions ==
    (IF technical_signal = "Buy" THEN 1 ELSE 0)
    + (IF net_pressure > 0 THEN 1 ELSE 0)
    + (IF sentiment.num * 100 > 5 * sentiment.den THEN 1 ELSE 0)

SellConditions ==
    (IF technical_signal = "Sell" THEN 1 ELSE 0)
    + (IF net_pressure < 0 THEN 1 ELSE 0)
    + (IF sentiment.num * 100 < -5 * sentiment.den THEN 1 ELSE 0)

\* C1: in main_new.py and new.py buy points are 2 for a Buy verdict, +1 for
\* net pressure > 0, +1 for sentiment > 0.05; sell points mirror them; the
\* final signal is Buy exactly when buy points >= 3 and exceed sell points,
\* Sell exactly when sell points >= 3 and exceed buy points, Hold otherwise.
C1_DecisionEngine ==
    (Decided /\ engine = "strict") =>
        LET bp == (IF technical_signal = "Buy" THEN 2 ELSE 0)
                  + (IF net_pressure > 0 THEN 1 ELSE 0)
                  + (IF sentiment.num * 100 > 5 * sentiment.den THEN 1 ELSE 0)
            sp == (IF technical_signal = "Sell" THEN 2 ELSE 0)
                  + (IF net_pressure < 0 THEN 1 ELSE 0)
                  + (IF sentiment.num * 100 < -5 * sentiment.den THEN 1 ELSE 0)
        IN  /\ decision.buy_points = bp
            /\ decision.sell_points = sp
            /\ decision.signal \in {"Buy", "Sell", "Hold"}
            /\ (decision.signal = "Buy") <=> (bp >= 3 /\ bp > sp)
            /\ (decision.signal = "Sell") <=> (sp >= 3 /\ sp > bp)
            /\ (technical_signal = "Buy" /\ net_pressure = 0 /\ sentiment.num = 0)
                   => decision.signal = "Hold"

\* The scenario of the specification: verdict Buy, net +500, sentiment 0.2
\* decided as Buy with 4 buy points.
C1_Witness ==
    /\ Decided /\ engine = "strict" /\ earlier = NoDecision
    /\ technical_signal = "Buy" /\ net_pressure = 500 /\ sentiment = Frac(20, 100)
    /\ decision = [buy_points |-> 4, sell_points |-> 0, signal |-> "Buy"]

\* C2: a Buy needs at least two of {verdict Buy, net > 0, sentiment > 0.05},
\* a Sell at least two of {verdict Sell, net < 0, sentiment < -0.05}.
C2_Quorum ==
    (Decided /\ engine = "strict") =>
        /\ decision.signal = "Buy" => BuyConditions >= 2
        /\ decision.signal = "Sell" => SellConditions >= 2

\* A Sell decided on exactly two agreeing conditions.
C2_Witness ==
    /\ Decided /\ engine = "strict"
    /\ decision.signal = "Sell" /\ SellConditions = 2

SignalRank(sig) == IF sig = "Sell" THEN 0 ELSE IF sig = "Hold" THEN 1 ELSE 2

\* C3: with verdict and sentiment fixed, raising the net pressure never
\* lowers the signal (Buy to Hold or Sell, Hold to Sell), in the strict-zero
\* engine and in the 30%-of-magnitude engine.
C3_Monotonic ==
    earlier # NoDecision => SignalRank(earlier.signal) <= SignalRank(decision.signal)

\* A Sell that a higher net pressure lifted to Hold, in the threshold engine.
C3_Witness ==
    /\ earlier # NoDecision /\ engine = "threshold"
    /\ earlier.signal = "Sell" /\ decision.signal = "Hold"

(***************************************************************************)
(* Claims about the technical signal resolver (ResolverSpec).              *)
(***************************************************************************)
VotesFor(what) == Cardinality({ k \in DOMAIN votes : votes[k] = what })

\* C5: for every combination of the four votes the verdict of main_new.py is
\* Buy iff there are strictly more Buy votes than Sell votes, Sell iff
\* strictly more Sell votes, and Neutral when the counts are equal, the
\* all-abstain case included.
C5_StrictMajority ==
    technical_signal # "none" =>
        /\ (technical_signal = "Buy") <=> (VotesFor("Buy") > VotesFor("Sell"))
        /\ (technical_signal = "Sell") <=> (VotesFor("Sell") > VotesFor("Buy"))
        /\ (technical_signal = "Neutral") <=> (VotesFor("Buy") = VotesFor("Sell"))

\* A two-against-two tie resolved.
C5_Witness ==
    /\ technical_signal = "Neutral"
    /\ VotesFor("Buy") = 2 /\ VotesFor("Sell") = 2

(***************************************************************************)
(* Claims about analyze_stock and send_signals (AnalysisSpec, Spec).       *)
(***************************************************************************)
Finished(i) == worker[i].state \in {"done", "yielded"}

\* The call of worker i calculated its metrics.
Analysed(i) ==
    /\ Finished(i)
    /\ BindsSymbol(stocks[i])
    /\ (variant = "new" \/ worker[i].historical_data.content # <<>>)

\* Bars with a numeric close, counted after de-duplication on date.
ValidBars(h) == IF h.closePrice THEN NumericBars(Normalized(h.content)) ELSE 0

\* C4: a series with fewer than 20 valid bars gets the verdict Neutral,
\* without voting, also when it has 20 or more rows.
C4_FewValidBarsNeutral ==
    \A i \in Indices :
        (Analysed(i) /\ variant = "main_new"
            /\ ValidBars(worker[i].historical_data) < MinRows)
        => /\ worker[i].locals.technical_analysis.Signal = "Neutral"
           /\ worker[i].locals.technical_analysis.signals = <<>>

\* Twenty rows of which nineteen have a numeric close, voted on.
C4_Witness ==
    \E i \in Indices :
        /\ Analysed(i) /\ variant = "main_new"
        /\ worker[i].historical_data = NullFirstRising
        /\ ValidBars(worker[i].historical_data) = MinRows - 1
        /\ worker[i].locals.technical_analysis.Signal = "Buy"
        /\ Len(worker[i].locals.technical_analysis.signals) = 3

\* C6: a fault in analyze_stock makes it return None, never raise, and
\* send_signals goes on collecting.
C6_FaultIsolation ==
    /\ \A i \in Indices : worker[i].outcome.kind # "raised"
    /\ pc # "raised"

\* A roster entry without "id": the exception left analyze_stock and
\* future.result() raised it again in send_signals.
C6_Witness ==
    /\ pc = "raised"
    /\ \E i \in Indices :
          /\ ~stocks[i].has_id
          /\ worker[i].state = "yielded"
          /\ worker[i].outcome.kind = "raised"

\* The results list had the futures completed in roster order.
RECURSIVE RosterOrderResults(_)
RosterOrderResults(n) ==
    IF n = 0 THEN <<>>
    ELSE IF worker[n].outcome.kind = "record"
         THEN Append(RosterOrderResults(n - 1), worker[n].outcome.record)
         ELSE RosterOrderResults(n - 1)

\* C7: the ordered output is the same for every completion order, that is,
\* the one a completion in roster order gives.
C7_OrderIndependent ==
    pc = "written" =>
        output.Overall =
            IF variant = "main_new" THEN RosterOrderResults(Len(stocks))
            ELSE sorted_results(RosterOrderResults(Len(stocks)))

\* Two Hold records of new.py written in the order the futures completed,
\* the second roster entry first.
C7_Witness ==
    /\ pc = "written" /\ variant = "new"
    /\ Len(output.Overall) = 2
    /\ output.Overall[1].Final_Signal = "Hold"
    /\ output.Overall[1].Symbol = stocks[2].symbol
    /\ output.Overall[2].Symbol = stocks[1].symbol

\* C8: when no instrument produced a result the run ends without writing a
\* file, in every script.
C8_EmptyRunWritesNothing ==
    (pc \in {"written", "returned"} /\ results = <<>>) => ~output.written

\* new.py wrote signals.csv from an empty results list.
C8_Witness ==
    /\ pc = "written" /\ variant = "new"
    /\ results = <<>> /\ output.written

\* C9: a non-empty history with fewer than 20 bars, or without the close
\* field, gives main_new.py a record: verdict Neutral, final signal Hold.
C9_InsufficiencyNotFatal ==
    \A i \in Indices :
        (Analysed(i) /\ variant = "main_new"
            /\ LET h == worker[i].historical_data
               IN  ~h.closePrice \/ Len(Normalized(h.content)) < MinRows)
        => /\ worker[i].outcome.kind = "record"
           /\ worker[i].outcome.record.Final_Signal = "Hold"

\* A history of nineteen bars: the verdict is Neutral, the decision Hold, and
\* analyze_stock returned None.
C9_Witness ==
    \E i \in Indices :
        /\ Analysed(i) /\ variant = "main_new"
        /\ worker[i].historical_data = ShortRising
        /\ worker[i].locals.technical_analysis.Signal = "Neutral"
        /\ worker[i].locals.decision.signal = "Hold"
        /\ worker[i].outcome.kind = "None"

\* C10: a symbol without news gets the sentiment 0, and the call does not
\* raise.
C10_NoNewsZero ==
    \A i \in Indices :
        (Analysed(i)
            /\ (stocks[i].symbol \notin DOMAIN news_dict
                    \/ news_dict[stocks[i].symbol] = <<>>))
        => /\ worker[i].locals.sentiment = Frac(0, 1)
           /\ worker[i].outcome.kind # "raised"

\* A symbol absent from a news index that has news on another symbol.
C10_Witness ==
    \E i \in Indices :
        /\ Analysed(i) /\ variant = "main_new"
        /\ news_dict # <<>> /\ stocks[i].symbol \notin DOMAIN news_dict
        /\ worker[i].locals.sentiment.num = 0

(***************************************************************************)
(* Claims about the sentiment aggregator (SentimentSpec).                  *)
(***************************************************************************)
\* The news items of the symbol aggregated.
TheNews == news_dict[stocks[1].symbol]

WellFormed(item) == item.publishedDate = "ok"

\* C11: an item published more than 30 days ago contributes exactly 0
\* whatever its polarity, and a symbol whose items are all older than 30
\* days gets the aggregate 0.
C11_RecencyDecay ==
    pc = "aggregated" =>
        /\ \A k \in DOMAIN TheNews :
              (WellFormed(TheNews[k]) /\ TheNews[k].days_old > DecayDays)
                  => Weighted(TheNews[k]) = 0
        /\ (TheNews # <<>>
              /\ \A k \in DOMAIN TheNews :
                    WellFormed(TheNews[k]) /\ TheNews[k].days_old > DecayDays)
           => (sentiment.num = 0 /\ sentiment.den > 0)

\* The scenario of the specification: a single item published 31 days ago
\* with a positive polarity, aggregated to 0.
C11_Witness ==
    /\ pc = "aggregated"
    /\ TheNews = <<NewsItem(DecayDays + 1, 50)>>
    /\ sentiment.num = 0

\* The well-formed items of a list, in their order.
WellFormedItems(items) == SelectSeq(items, WellFormed)

\* C12: with malformed dates among the items the aggregate is the mean of
\* polarity x weight over exactly the well-formed items, wherever the
\* malformed ones sit.
C12_MalformedSkipped ==
    pc = "aggregated" =>
        LET expected == Mean(WellFormedItems(TheNews))
        IN  sentiment.num * expected.den = expected.num * sentiment.den

\* main_new.py: a malformed item after two well-formed recent ones, the
\* aggregate 0 instead of their mean.
C12_Witness ==
    /\ pc = "aggregated" /\ variant = "main_new"
    /\ TheNews = <<NewsItem(0, 50), NewsItem(15, 50), BadDateItem(100)>>
    /\ sentiment.num = 0

(***************************************************************************)
(* Claims about the pressure calculation (PressureSpec).                   *)
(***************************************************************************)
\* |percentage change| x traded quantity of bar k, in units of 1/PressureDen,
\* when its close compares to the previous bar's close as dir says.
BarPressure(rows, k, dir) ==
    IF k > 1 /\ (rows[k].close - rows[k - 1].close) * dir > 0
    THEN (Abs(rows[k].close - rows[k - 1].close) * 100 * PressureDen * rows[k].qty)
             \div rows[k - 1].close
    ELSE 0

RECURSIVE ExpectedPressure(_, _, _)
ExpectedPressure(rows, n, dir) ==
    IF n = 0 THEN 0
    ELSE ExpectedPressure(rows, n - 1, dir) + BarPressure(rows, n, dir)

AllNumeric(rows) == \A k \in DOMAIN rows : rows[k].numeric

\* C13: buy pressure is the sum of |percentage change| x quantity over the
\* bars that closed higher than the bar before, sell pressure the same over
\* the bars that closed lower; both are >= 0; a constant series gives 0, 0
\* and net 0; an empty series or one without the close or the quantity
\* field gives (0, 0).
C13_Pressure ==
    \A i \in Indices :
        (Analysed(i) /\ AllNumeric(worker[i].historical_data.content)) =>
            LET h    == worker[i].historical_data
                rows == h.content
                l    == worker[i].locals
            IN  /\ l.buy_pressure >= 0 /\ l.sell_pressure >= 0
                /\ l.net_pressure = l.buy_pressure - l.sell_pressure
                /\ IF rows = <<>> \/ ~h.closePrice \/ ~h.totalTradedQuantity
                   THEN l.buy_pressure = 0 /\ l.sell_pressure = 0
                   ELSE /\ l.buy_pressure = ExpectedPressure(rows, Len(rows), 1)
                        /\ l.sell_pressure = ExpectedPressure(rows, Len(rows), -1)
                /\ (\A k \in DOMAIN rows : rows[k].close = rows[1].close)
                       => (l.buy_pressure = 0 /\ l.sell_pressure = 0
                              /\ l.net_pressure = 0)

\* A series with a rise, an unchanged bar and a fall: closes 1, 2, 2, 1 with
\* 10, 20, 30, 40 traded give buy pressure 100% x 20, sell pressure 50% x 40.
C13_Witness ==
    \E i \in Indices :
        /\ Analysed(i)
        /\ worker[i].historical_data =
               History(<<Bar(1, 1, Quantity), Bar(2, 2, 2 * Quantity),
                         Bar(3, 2, 3 * Quantity), Bar(4, 1, 4 * Quantity)>>)
        /\ worker[i].locals.buy_pressure = 100 * 2 * Quantity * PressureDen
        /\ worker[i].locals.sell_pressure = 50 * 4 * Quantity * PressureDen

(***************************************************************************)
(* Claims about the ranking of new.py and main.py (RankingSpec).           *)
(***************************************************************************)
CategoryRank(sig) == IF sig = "Buy" THEN 0 ELSE IF sig = "Sell" THEN 1 ELSE 2

Confirms(r, side) == IF r.Technical_Signal = side THEN 1 ELSE 0

\* (c1, n1, s1) >= (c2, n2, s2) lexicographically.
LexGE(c1, n1, s1, c2, n2, s2) ==
    \/ c1 > c2
    \/ c1 = c2 /\ n1 > n2
    \/ c1 = c2 /\ n1 = n2 /\ s1 >= s2

\* C14: sorted_results lists the Buy records, then the Sell records, then
\* the Hold records; the Buy records by (verdict is Buy, net pressure,
\* sentiment) descending; the Sell records confirmed first, then by net
\* pressure and sentiment ascending; and it is a permutation of results.
C14_Ranking ==
    (pc = "written" /\ variant = "new") =>
        LET out == output.Overall
        IN  /\ Len(out) = Len(results)
            /\ \A k \in DOMAIN results : \E j \in DOMAIN out : out[j] = results[k]
            /\ \A a, b \in DOMAIN out :
                  a < b =>
                    /\ CategoryRank(out[a].Final_Signal) <= CategoryRank(out[b].Final_Signal)
                    /\ (out[a].Final_Signal = "Buy" /\ out[b].Final_Signal = "Buy")
                         => LexGE(Confirms(out[a], "Buy"), out[a].Net_Pressure,
                                  out[a].Sentiment_Score,
                                  Confirms(out[b], "Buy"), out[b].Net_Pressure,
                                  out[b].Sentiment_Score)
                    /\ (out[a].Final_Signal = "Sell" /\ out[b].Final_Signal = "Sell")
                         => LexGE(Confirms(out[a], "Sell"), -out[a].Net_Pressure,
                                  -out[a].Sentiment_Score,
                                  Confirms(out[b], "Sell"), -out[b].Net_Pressure,
                                  -out[b].Sentiment_Score)

\* A Hold, a weaker Buy and a stronger Buy collected in that order: written
\* stronger Buy first, Hold last.
C14_Witness ==
    /\ pc = "written" /\ variant = "new"
    /\ Len(results) = 3
    /\ results[1].Final_Signal = "Hold"
    /\ results[2].Final_Signal = "Buy" /\ results[3].Final_Signal = "Buy"
    /\ results[2].Net_Pressure < results[3].Net_Pressure
    /\ output.Overall = <<results[3], results[2], results[1]>>

(***************************************************************************)
(* Claims about the indicator sheets of main_new.py (ScoringSpec).         *)
(***************************************************************************)
IndicatorSheets == {"Bollinger", "MACD", "RSI", "MA"} \X {"Buy", "Sell"}

\* The written sheet of an indicator and a side.
WrittenSheet(indicator, side) ==
    IF indicator = "Bollinger"
    THEN IF side = "Buy" THEN output.Bollinger_Buy ELSE output.Bollinger_Sell
    ELSE IF indicator = "MACD"
    THEN IF side = "Buy" THEN output.MACD_Buy ELSE output.MACD_Sell
    ELSE IF indicator = "RSI"
    THEN IF side = "Buy" THEN output.RSI_Buy ELSE output.RSI_Sell
    ELSE IF side = "Buy" THEN output.MA_Buy ELSE output.MA_Sell

\* C15: each of the eight sheets holds exactly the records of the Overall
\* list whose Final Signal is the sheet's side, each with every field as in
\* the Overall list, ordered by Score descending (rows without a Score
\* last).
C15_NeverReclassifies ==
    (pc = "written" /\ variant = "main_new") =>
        \A sh \in IndicatorSheets :
            LET sheet  == WrittenSheet(sh[1], sh[2])
                wanted == { k \in DOMAIN output.Overall :
                              output.Overall[k].Final_Signal = sh[2] }
            IN  /\ Len(sheet) = Cardinality(wanted)
                /\ \A k \in wanted :
                      \E j \in DOMAIN sheet : sheet[j].row = output.Overall[k]
                /\ \A j \in DOMAIN sheet : sheet[j].row.Final_Signal = sh[2]
                /\ \A a, b \in DOMAIN sheet :
                      a < b =>
                        /\ sheet[a].Score.numeric \/ ~sheet[b].Score.numeric
                        /\ (sheet[a].Score.numeric /\ sheet[b].Score.numeric)
                              => sheet[a].Score.v >= sheet[b].Score.v

\* Two Buy records and no other: the one collected second has the larger
\* MACD score and is written first in the MACD sheet; the Sell sheets are
\* empty.
C15_Witness ==
    /\ pc = "written" /\ variant = "main_new"
    /\ Len(output.Overall) = 2
    /\ output.MACD_Buy[1].row = output.Overall[2]
    /\ output.MACD_Buy[2].row = output.Overall[1]
    /\ output.MACD_Buy[1].Score.v > output.MACD_Buy[2].Score.v
    /\ output.MACD_Sell = <<>>

max_attempt == 50

\* What one request meets with, as far as the loops tell them apart:
\*   "ok"        status 200 and a JSON object as body;
\*   "http"      a status of 400 or more;
\*   "exception" an Exception whose args[0] is text (a JSON decoding error,
\*               a body that is no object, main_new's own "API Error" on a
\*               status that is neither 200 nor an error);
\*   "wrapped"   an Exception whose args is empty or whose args[0] is no
\*               text (requests' ConnectionError wraps the urllib3 error).
Responses == {"ok", "http", "exception", "wrapped"}

LoopExhaustedLate(a) == a > max_attempt

\* attempt >= max_attempt
LoopExhausted(a) == a >= max_attempt

\* main_new.py: the bound is tested before each request; status 200 ends
\* the loop with the content, anything else counts one failed attempt.
FetchAttemptMainNew(i) ==
    IF LoopExhausted(attempt)
    THEN /\ worker' = [worker EXCEPT ![i].state = "fetched"]
         /\ UNCHANGED fvars
    /\ UNCHANGED rvars
    ELSE /\ requests' = requests + 1
         /\ \E r \in Responses :
              /\ response' = r
              /\ IF r = "ok"
                 THEN /\ attempt' = attempt
                      /\ \E h \in retrievable :
                           worker' = [worker EXCEPT ![i].state = "fetched",
                                                    ![i].historical_data = h]
                 ELSE /\ attempt' = attempt + 1
                      /\ worker' = worker

\* new.py: attempt counts every request; a status of 400 or more is
\* retried until the bound, any other exception ends the loop at once.
\* main.py tests e.args[0] in place of str(e): that test raises TypeError or
\* IndexError on a wrapped exception, inside the handler, and the handler of
\* the whole function returns None.
FetchAttemptNew(i) ==
    /\ attempt' = attempt + 1
    /\ requests' = requests + 1
    /\ \E r \in Responses :
         /\ response' = r
         /\ IF r = "ok"
            THEN \E h \in retrievable :
                   worker' = [worker EXCEPT ![i].state = "fetched",
                                            ![i].historical_data = h]
            ELSE IF r = "wrapped" /\ variant = "main" /\ ~LoopExhausted(attempt')
            THEN worker' = [worker EXCEPT ![i].state = "done",
                                          ![i].outcome = ReturnedNone]
            ELSE IF LoopExhausted(attempt') \/ r # "http"
            THEN worker' = [worker EXCEPT ![i].state = "fetched"]
            ELSE worker' = worker

FetchAttempt(i) ==
    /\ worker[i].state = "fetching"
    /\ IF variant = "main_new" THEN FetchAttemptMainNew(i) ELSE FetchAttemptNew(i)
    /\ UNCHANGED <<variant, stocks, news_dict, retrievable, results, pc, output>>
    /\ UNCHANGED dvars
    /\ UNCHANGED rvars

Fetching == [Pending EXCEPT !.state = "fetching"]

\* One instrument whose call has bound id and symbol and enters the loop.
FetchInit ==
    /\ variant \in {"main_new", "new", "main"}
    /\ stocks = <<Stock(Symbols[1])>>
    /\ news_dict \in {NoNews, SomeNews}
    /\ retrievable = RunHistories
    /\ worker = <<Fetching>>
    /\ results = <<>>
    /\ pc = "collect"
    /\ output = NoFile
    /\ DecisionIdle
    /\ FetchIdle
    /\ RerunIdle

FetchNext ==
    \/ FetchAttempt(1)
    \/ Analyze(1)
    \/ Collect(1)
    \/ FinishMainNew
    \/ FinishNew

FetchSpec == FetchInit /\ [][FetchNext]_vars

\* C17: the fetch loop issues at most 50 requests; once the loop has ended
\* without a successful retrieval the instrument's history is empty, and the
\* call never ends with an exception nor does the run abort.
LoopEnded == worker[1].state # "fetching"

C17_FetchTerminates ==
    /\ requests <= max_attempt
    /\ attempt <= max_attempt
    /\ (LoopEnded /\ response # "ok") => worker[1].historical_data = NoData
    /\ worker[1].outcome.kind # "raised"
    /\ pc # "raised"

\* Fifty requests of main_new.py all failed: the loop has ended, the call
\* returned None and the run went on to its end.
C17_Witness ==
    /\ variant = "main_new"
    /\ requests = max_attempt
    /\ response # "ok"
    /\ worker[1].outcome = ReturnedNone
    /\ worker[1].state = "yielded"
    /\ pc = "returned"

\* Fifty requests of new.py met an error status.
C17_WitnessNew ==
    /\ variant = "new"
    /\ requests = max_attempt
    /\ response = "http"
    /\ worker[1].historical_data = NoData
    /\ pc = "written"

(***************************************************************************)
(* The calls of analyze_stock running side by side in the pool.            *)
(***************************************************************************)
\* The step changes the state of call i and of no other call.
StepOfCall(i) ==
    /\ worker'[i] # worker[i]
    /\ \A j \in Indices \ {i} : worker'[j] = worker[j]

\* The step is the collecting loop taking the finished call i.
CollectedBy(i) ==
    /\ pc = "collect"
    /\ worker[i].state = "done" /\ worker'[i].state = "yielded"
    /\ worker[i].outcome.kind = "record"
    /\ results' = Append(results, worker[i].outcome.record)

NoSharedMutation ==
    /\ news_dict' = news_dict
    /\ stocks' = stocks
    /\ worker' # worker => \E i \in Indices : StepOfCall(i)
    /\ results' # results => \E i \in Indices : CollectedBy(i)

\* The records of results belong to distinct instruments, each to one whose
\* call has been collected.
OneRecordEach ==
    /\ \A a, b \in 1 .. Len(results) :
         results[a].Symbol = results[b].Symbol => a = b
    /\ \A a \in 1 .. Len(results) :
         \E i \in Indices : /\ worker[i].state = "yielded"
                            /\ worker[i].outcome = Returned(results[a])
                            /\ stocks[i].symbol = results[a].Symbol

\* C18: in every interleaving of the calls no step changes news_dict or the
\* roster, a step of one call changes no other call's data, results changes
\* only by the collecting loop appending the record of the call it took, and
\* results holds at most one record per instrument.
C18_NoSharedMutableState == [][NoSharedMutation]_vars /\ []OneRecordEach

\* One call has been collected and its record appended while another call,
\* which reads the same news index, is still between retrieval and analysis.
C18_Witness ==
    /\ news_dict = SomeNews
    /\ Len(results) = 1
    /\ \E i, j \in Indices :
         /\ worker[i].state = "yielded" /\ worker[i].outcome.kind = "record"
         /\ worker[j].state = "fetched"

(***************************************************************************)
(* The order of gathering and ranking in send_signals.                     *)
(***************************************************************************)
\* The step leaves the collecting loop for the code after the pool.
RankingStarts == pc = "collect" /\ pc' # "collect" /\ worker' = worker

\* Every call has ended with a record or None and has been taken by the
\* collecting loop, and results holds the record of every call that
\* returned one.
EveryCallGathered ==
    /\ \A i \in Indices :
         /\ worker[i].state = "yielded"
         /\ worker[i].outcome.kind \in {"record", "None"}
         /\ worker[i].outcome.kind = "record" =>
              \E a \in 1 .. Len(results) : results[a] = worker[i].outcome.record
    /\ \A a \in 1 .. Len(results) :
         \E i \in Indices : worker[i].outcome = Returned(results[a])

\* C19: the code after the pool (partition, score, sort, write) starts only
\* when every call has returned a record or None and every record is in
\* results; once the collecting loop is left, results does not change and
\* no output exists before that.
C19_GatherBeforeRank ==
    /\ [][RankingStarts => EveryCallGathered]_vars
    /\ [][pc # "collect" => results' = results]_vars
    /\ [](output.written => (pc = "written" /\ EveryCallGathered))

\* Two instruments, one call returned None and the other a record; the
\* output was written from the one gathered record.
C19_Witness ==
    /\ pc = "written"
    /\ Len(stocks) = 2
    /\ \E i, j \in Indices :
         /\ worker[i].outcome.kind = "None"
         /\ worker[j].outcome.kind = "record"
    /\ Len(results) = 1
    /\ Len(output.Overall) = 1

(***************************************************************************)
(* Specification of the technical signal resolver of new.py and main.py    *)
(* alone: the votes are drawn, and two runs of the program settle the      *)
(* verdict on them.  new.py casts up to four votes (MA, Bollinger, MACD,   *)
(* RSI), main.py up to two (RSI, SMA).                                     *)
(***************************************************************************)
VotesCast(e) == IF e = "new" THEN 4 ELSE 2

\* if not signals: Neutral; else max(set(signals), key=signals.count).
ResolveNewVerdicts(cast) ==
    IF SignalsOf(cast) = <<>> THEN {"Neutral"} ELSE MaxByCount(SignalsOf(cast))

ResolverNewInit ==
    /\ engine \in {"new", "main"}
    /\ votes \in [1 .. VotesCast(engine) -> {"Buy", "Sell", "abstain"}]
    /\ technical_signal = "none"
    /\ net_pressure = 0
    /\ sentiment = Frac(0, 1)
    /\ decision = NoDecision
    /\ earlier = NoDecision
    /\ PipelineIdle
    /\ FetchIdle
    /\ rerun_signal = "none"

\* One run of the program resolves the votes.
ResolveNew ==
    /\ technical_signal = "none"
    /\ technical_signal' \in ResolveNewVerdicts(votes)
    /\ UNCHANGED <<engine, net_pressure, sentiment, decision, earlier, votes>>
    /\ UNCHANGED pvars
    /\ UNCHANGED fvars
    /\ UNCHANGED rvars

\* Another run of the program, a process with string hashes of its own,
\* resolves the same votes.
ResolveAgain ==
    /\ rerun_signal = "none"
    /\ rerun_signal' \in ResolveNewVerdicts(votes)
    /\ UNCHANGED dvars
    /\ UNCHANGED pvars
    /\ UNCHANGED fvars

ResolverNewNext == ResolveNew \/ ResolveAgain

ResolverNewSpec == ResolverNewInit /\ [][ResolverNewNext]_vars

\* C20: in new.py and main.py, whenever the Buy votes and the Sell votes are
\* equal in number (0-0, 1-1, 2-2) the verdict is Neutral, and two runs on
\* the same votes give the same verdict.
C20_TieNeutralEveryRun ==
    /\ (VotesFor("Buy") = VotesFor("Sell") /\ technical_signal # "none")
           => technical_signal = "Neutral"
    /\ (technical_signal # "none" /\ rerun_signal # "none")
           => technical_signal = rerun_signal

\* What the code does hold to: the verdict is one of the strictly most
\* frequent votes, Neutral only when no vote was cast.
C20_VerdictAmongMostFrequent ==
    technical_signal # "none" =>
        IF VotesFor("Buy") > VotesFor("Sell") THEN technical_signal = "Buy"
        ELSE IF VotesFor("Sell") > VotesFor("Buy") THEN technical_signal = "Sell"
        ELSE IF VotesFor("Buy") = 0 THEN technical_signal = "Neutral"
        ELSE technical_signal \in {"Buy", "Sell"}

\* Two Buy votes against two Sell votes in new.py: one run says Buy, the
\* other Sell.
C20_Witness ==
    /\ engine = "new"
    /\ VotesFor("Buy") = 2 /\ VotesFor("Sell") = 2
    /\ technical_signal = "Buy"
    /\ rerun_signal = "Sell"

(***************************************************************************)
(* Specification of the votes of main_new.py: one call of                  *)
(* analyze_technical_indicators on a history of 17 equal closes followed   *)
(* by a tail of closes that moves the latest row above, below or onto the  *)
(* averages and bands; a close of 0 is a null closePrice.                  *)
(***************************************************************************)
TailLen == 3
TailCloses == {1, 2, 4, 8}
BaseCloses == {2, 4}

\* Tails of numeric closes, and the same with one null closePrice.
Tails ==
    LET numeric == [1 .. TailLen -> TailCloses]
    IN  numeric \cup { [t EXCEPT ![k] = 0] : t \in numeric, k \in 1 .. TailLen }

VoteHistories ==
    { History(Bars(Ramp(<<a>>, MinRows - 3) \o tail)) : a \in BaseCloses, tail \in Tails }
      \cup {Constant, Rising, Falling, Spike, Drop, ShortRising}

Retrieved(h) == [Pending EXCEPT !.state = "fetched", !.historical_data = h]

VoteInit ==
    /\ variant = "main_new"
    /\ stocks = <<Stock(Symbols[1])>>
    /\ news_dict = NoNews
    /\ \E h \in VoteHistories : /\ retrievable = {h}
                                /\ worker = <<Retrieved(h)>>
    /\ results = <<>>
    /\ pc = "collect"
    /\ output = NoFile
    /\ DecisionIdle
    /\ FetchIdle
    /\ RerunIdle

VoteNext == Analyze(1)

VoteSpec == VoteInit /\ [][VoteNext]_vars

\* The technical analysis the call of instrument 1 has made.
TheAnalysis == worker[1].locals.technical_analysis

VotesAnalysed == worker[1].state = "done" /\ TheAnalysis.full

\* close < middle - 2 std (below) and close > middle + 2 std (above) on the
\* sums of the 20-row window: with d = sum - 20 close, 20 * 19 * std^2 =
\* 20 * squares - sum^2, so |d| > 40 std iff 19 d^2 > 80 (20 squares - sum^2).
OutsideBand(snap, below) ==
    LET bb == snap.Bollinger
        d  == bb.sum - 20 * snap.Bollinger_Current.v
    IN  /\ bb.defined /\ snap.Bollinger_Current.numeric
        /\ IF below THEN d > 0 ELSE d < 0
        /\ 19 * d * d > 80 * (20 * bb.squares - bb.sum * bb.sum)

ExpectedVotes(snap) ==
    <<IF GT(snap.Short_MA, snap.Long_MA) THEN "Buy" ELSE "Sell">>
    \o (IF OutsideBand(snap, TRUE) THEN <<"Buy">>
        ELSE IF OutsideBand(snap, FALSE) THEN <<"Sell">> ELSE <<>>)
    \o <<IF snap.MACD_Current.numeric /\ snap.MACD_Signal.numeric
            /\ snap.MACD_Current.v > snap.MACD_Signal.v THEN "Buy" ELSE "Sell">>
    \o (IF LT(snap.RSI_Current, Frac(30, 1)) THEN <<"Buy">>
        ELSE IF GT(snap.RSI_Current, Frac(70, 1)) THEN <<"Sell">> ELSE <<>>)

ConstantPrice ==
    \A i \in 1 .. Len(worker[1].historical_data.content) :
        /\ worker[1].historical_data.content[i].numeric
        /\ worker[1].historical_data.content[i].close
               = worker[1].historical_data.content[1].close

\* C21: on at least 20 bars the moving averages and the MACD each cast one
\* vote, Buy when strictly above and Sell otherwise; Bollinger and RSI vote
\* Buy below the lower band (30), Sell above the upper band (70) and abstain
\* otherwise; so two to four votes are cast, and a constant price gets
\* exactly two Sell votes.
C21_VotesCast ==
    VotesAnalysed =>
        /\ TheAnalysis.signals = ExpectedVotes(TheAnalysis.snapshot)
        /\ Len(TheAnalysis.signals) \in 2 .. 4
        /\ ConstantPrice => TheAnalysis.signals = <<"Sell", "Sell">>

\* A constant price: equal averages and a MACD equal to its signal line
\* gave the two Sell votes.
C21_Witness ==
    /\ VotesAnalysed
    /\ ConstantPrice
    /\ TheAnalysis.signals = <<"Sell", "Sell">>
    /\ TheAnalysis.Signal = "Sell"

\* All four indicators voted.
C21_WitnessFourVotes == VotesAnalysed /\ Len(TheAnalysis.signals) = 4

(***************************************************************************)
(* Specification of the series normalisation: two calls of analyze_stock   *)
(* of main_new.py, the first on a history in date order without repeated   *)
(* dates, the second on the same records retrieved in another order, or    *)
(* with a superseded record of one date in front of the current one.       *)
(***************************************************************************)
Reversed(rows) == [i \in 1 .. Len(rows) |-> rows[Len(rows) + 1 - i]]

\* The last two records exchanged.
LastSwapped(rows) ==
    [i \in 1 .. Len(rows) |->
        IF i = Len(rows) THEN rows[Len(rows) - 1]
        ELSE IF i = Len(rows) - 1 THEN rows[Len(rows)]
        ELSE rows[i]]

\* A superseded record of the last date, with close c, before the current one.
WithSuperseded(rows, c) ==
    SubSeq(rows, 1, Len(rows) - 1)
        \o <<Bar(rows[Len(rows)].date, c, Quantity), rows[Len(rows)]>>

Retrievals(rows) ==
    {Reversed(rows), LastSwapped(rows)}
        \cup { WithSuperseded(rows, c) : c \in TailCloses }

OrderedHistories ==
    { History(Bars(Ramp(<<a>>, MinRows - 3) \o tail)) :
        a \in BaseCloses, tail \in [1 .. TailLen -> TailCloses] }
      \cup {Rising, Falling, Spike, Drop}

NormalisationInit ==
    /\ variant = "main_new"
    /\ stocks = <<Stock(Symbols[1]), Stock(Symbols[2])>>
    /\ news_dict = NoNews
    /\ \E h \in OrderedHistories : \E rows \in Retrievals(h.content) :
         /\ retrievable = {h, History(rows)}
         /\ worker = <<Retrieved(h), Retrieved(History(rows))>>
    /\ results = <<>>
    /\ pc = "collect"
    /\ output = NoFile
    /\ DecisionIdle
    /\ FetchIdle
    /\ RerunIdle

NormalisationNext == \E i \in Indices : Analyze(i)

NormalisationSpec == NormalisationInit /\ [][NormalisationNext]_vars

SameSeries ==
    Normalized(worker[1].historical_data.content)
        = Normalized(worker[2].historical_data.content)

BothAnalysed == worker[1].state = "done" /\ worker[2].state = "done"

PressureOverSeries(i) ==
    calculate_buy_sell_pressure(History(Normalized(worker[i].historical_data.content)))

\* C22: the pressures of a call are those of the date-sorted, de-duplicated
\* series, as the technical indicators are; two calls whose histories have
\* the same such series end with the same pressures, technical verdict and
\* final signal.
C22_SameSeriesSameResult ==
    /\ \A i \in Indices :
         worker[i].state = "done" =>
            /\ worker[i].locals.buy_pressure = PressureOverSeries(i).buy
            /\ worker[i].locals.sell_pressure = PressureOverSeries(i).sell
    /\ (BothAnalysed /\ SameSeries) =>
          /\ worker[1].locals.buy_pressure = worker[2].locals.buy_pressure
          /\ worker[1].locals.sell_pressure = worker[2].locals.sell_pressure
          /\ worker[1].locals.technical_analysis.Signal
                 = worker[2].locals.technical_analysis.Signal
          /\ worker[1].locals.decision.signal = worker[2].locals.decision.signal

\* What main_new.py does keep: the technical analysis is the same for
\* histories of the same series.
C22_SameSeriesSameVerdict ==
    (BothAnalysed /\ SameSeries) =>
        worker[1].locals.technical_analysis = worker[2].locals.technical_analysis

\* The same series retrieved in two orders: the same technical verdict, but
\* the net pressures have opposite signs and the final signals differ.
C22_Witness ==
    /\ BothAnalysed /\ SameSeries
    /\ worker[1].locals.technical_analysis.Signal
           = worker[2].locals.technical_analysis.Signal
    /\ worker[1].locals.net_pressure > 0
    /\ worker[2].locals.net_pressure < 0
    /\ worker[1].locals.decision.signal # worker[2].locals.decision.signal


\* The sums of the gains and of the losses over the latest RSI window of
\* the frame the call of instrument 1 analysed (14 times the averages).
WindowGain ==
    LET df == Normalized(worker[1].historical_data.content)
    IN  SumGain(df, Len(df) - 13, TRUE)

WindowLoss ==
    LET df == Normalized(worker[1].historical_data.content)
    IN  SumGain(df, Len(df) - 13, FALSE)

TheRSI == TheAnalysis.snapshot.RSI_Current

\* The votes before the RSI vote, from the values of the latest row.
VotesBeforeRSI ==
    LET snap == TheAnalysis.snapshot
    IN  1 + (IF OutsideBand(snap, TRUE) \/ OutsideBand(snap, FALSE) THEN 1 ELSE 0) + 1

RSIVoteCast ==
    IF Len(TheAnalysis.signals) > VotesBeforeRSI
    THEN TheAnalysis.signals[Len(TheAnalysis.signals)]
    ELSE "abstain"

\* C23: with no loss in the latest 14-row window the RSI is 100 and votes
\* Sell when there was a gain, and is undefined and abstains when there was
\* none; the analysis completes in both cases; with a loss in the window the
\* RSI is a number from 0 to 100.
C23_ZeroLossRSI ==
    VotesAnalysed =>
        /\ (WindowLoss = 0 /\ WindowGain > 0) =>
               /\ TheRSI.den > 0 /\ TheRSI.num = 100 * TheRSI.den
               /\ RSIVoteCast = "Sell"
        /\ (WindowLoss = 0 /\ WindowGain = 0) =>
               /\ IsNaN(TheRSI)
               /\ RSIVoteCast = "abstain"
        /\ WindowLoss > 0 =>
               /\ TheRSI.den > 0
               /\ 0 <= TheRSI.num /\ TheRSI.num <= 100 * TheRSI.den
        /\ (worker[1].state = "done" /\ Len(worker[1].historical_data.content) >= 20)
               => TheAnalysis.full

\* A window of gains only: RSI 100, the RSI votes Sell.
C23_Witness ==
    /\ VotesAnalysed
    /\ WindowLoss = 0 /\ WindowGain > 0
    /\ TheRSI = Frac(100 * WindowGain, WindowGain)
    /\ RSIVoteCast = "Sell"

\* A window without any change: the RSI is undefined.
C23_WitnessUndefined ==
    /\ VotesAnalysed
    /\ WindowLoss = 0 /\ WindowGain = 0
    /\ IsNaN(TheRSI)
    /\ Len(TheAnalysis.signals) = 2


\* C24: a Buy decision has the technical verdict Buy and a Sell decision the
\* technical verdict Sell, whatever the net pressure and the sentiment; with
\* the verdict Neutral the decision is Hold.
C24_VerdictNecessary ==
    Decided =>
        /\ decision.signal = "Buy" => technical_signal = "Buy"
        /\ decision.signal = "Sell" => technical_signal = "Sell"
        /\ technical_signal = "Neutral" => decision.signal = "Hold"

\* Positive net pressure and sentiment above the threshold under a Neutral
\* verdict: two buy points, Hold.
C24_Witness ==
    /\ Decided
    /\ engine = "strict"
    /\ technical_signal = "Neutral"
    /\ net_pressure > 0
    /\ sentiment.num * 100 > 5 * sentiment.den
    /\ decision = [buy_points |-> 2, sell_points |-> 0, signal |-> "Hold"]

(***************************************************************************)
(* Specification of the sentiment range: well-formed news items whose      *)
(* polarity spans [-1, 1] and whose date lies before, on or after the      *)
(* current day (datetime.now() - a later date has a negative .days).       *)
(***************************************************************************)
MaxDaysAhead == 2

PublishAges == (-MaxDaysAhead .. 0) \cup {15, DecayDays, MaxDaysOld}

\* Polarities in hundredths: the ends of the range and values inside.
RangePolarities == {-100, -30, 100}

RangeItems == { NewsItem(d, pol) : d \in PublishAges, pol \in RangePolarities }

RangeInit ==
    /\ variant \in {"main_new", "new"}
    /\ stocks = <<Stock(Symbols[1])>>
    /\ \E n \in 0 .. MaxNews : \E items \in [1 .. n -> RangeItems] :
         news_dict = (Symbols[1] :> items)
    /\ retrievable = {}
    /\ worker = <<>>
    /\ results = <<>>
    /\ pc = "news"
    /\ output = NoFile
    /\ DecisionIdle
    /\ FetchIdle
    /\ RerunIdle

RangeSpec == RangeInit /\ [][SentimentNext]_vars

\* C25: with polarities in [-1, 1], whatever the publish dates (later than
\* the current time included), each item's weight is in [0, 1], so
\* |polarity x weight| <= |polarity|, and the aggregate is in [-1, 1].
C25_SentimentRange ==
    pc = "aggregated" =>
        /\ \A k \in DOMAIN TheNews :
              Abs(Weighted(TheNews[k])) <= Abs(TheNews[k].polarity) * DecayDays
        /\ sentiment.den > 0
        /\ -sentiment.den <= sentiment.num /\ sentiment.num <= sentiment.den

\* What the code does keep: with no item dated after the current day the
\* aggregate is in [-1, 1].
C25_RangeWithoutLaterDates ==
    (pc = "aggregated" /\ \A k \in DOMAIN TheNews : TheNews[k].days_old >= 0) =>
        /\ sentiment.den > 0
        /\ -sentiment.den <= sentiment.num /\ sentiment.num <= sentiment.den

\* One item of polarity 1 dated the day after the current one: weight
\* 31/30, aggregate above 1.
C25_Witness ==
    /\ pc = "aggregated"
    /\ TheNews = <<NewsItem(-1, 100)>>
    /\ sentiment = Frac(100 * (DecayDays + 1), 100 * DecayDays)
    /\ sentiment.num > sentiment.den

(***************************************************************************)
(* Specification of the two decision engines side by side: the matrix of   *)
(* main.py (decision) and the matrix of new.py and main_new.py (earlier)   *)
(* run on the same verdict, net pressure and sentiment.                    *)
(***************************************************************************)
EnginesInit ==
    /\ engine = "both"
    /\ technical_signal \in Verdicts
    /\ net_pressure \in NetRange
    /\ sentiment \in { Frac(h, 100) : h \in SentimentRange }
    /\ decision = NoDecision
    /\ earlier = NoDecision
    /\ votes = <<>>
    /\ PipelineIdle
    /\ FetchIdle
    /\ RerunIdle

RunBothEngines ==
    /\ decision = NoDecision
    /\ decision' = DecisionMatrixThreshold(technical_signal, net_pressure, sentiment)
    /\ earlier' = DecisionMatrix(technical_signal, net_pressure, sentiment)
    /\ UNCHANGED <<engine, technical_signal, net_pressure, sentiment, votes>>
    /\ UNCHANGED pvars
    /\ UNCHANGED fvars
    /\ UNCHANGED rvars

EnginesNext == RunBothEngines

EnginesSpec == EnginesInit /\ [][EnginesNext]_vars

\* C26: on every verdict, net pressure and sentiment the matrix of main.py,
\* with its threshold of 30% of |net pressure|, gives the buy and sell points
\* (so the pressure point) and the final signal of the strict-zero matrix.
C26_EnginesAgree ==
    Decided =>
        /\ decision.buy_points = earlier.buy_points
        /\ decision.sell_points = earlier.sell_points
        /\ decision.signal = earlier.signal

\* A net pressure of 1, threshold 0.3: the pressure point makes the third
\* buy point in both engines.
C26_Witness ==
    /\ Decided
    /\ technical_signal = "Buy" /\ net_pressure = 1 /\ sentiment.num = 0
    /\ decision = [buy_points |-> 3, sell_points |-> 0, signal |-> "Buy"]
    /\ earlier = decision

====
